---- MODULE Spec2Model ----
(***************************************************************************)
(* Model of isatools/isajson.py: load() with its nested                    *)
(* _build_assay_graph(), validate_isajson() with its nested checks and     *)
(* reference walkers, and validate2() with the module-level checks.        *)
(*                                                                         *)
(* Python objects are records [cls, s, a, k]: the class and the place of   *)
(* the document (study s, assay a, position k) the object was built from,  *)
(* which gives every object its identity.  None is the record NoneObj.     *)
(***************************************************************************)
EXTENDS Integers, Sequences, FiniteSets, TLC

VARIABLES
    process_sequence,   \* _build_assay_graph: the argument, a list of Process objects
    heap,               \* the fields of the Process objects (inputs, outputs, prev_process, next_process)
    gi,                 \* _build_assay_graph: index of the loop "for process in process_sequence"
    gpc,                \* _build_assay_graph: position inside the loop body
    G,                  \* _build_assay_graph: the DiGraph being built
    contribOut,         \* history: edges added by the output branch of each process
    contribIn,          \* history: edges added by the input branch of each process
    doc,                \* load: the parsed document (isajson)
    lpc,                \* load: position in the function
    si, ai, pi,         \* load: indices of the study, assay and process loops
    categories_dict, units_dict, protocols_dict, parameters_dict, factors_dict,
    sources_dict, samples_dict, process_dict, data_dict, other_materials_dict,
    sequences,          \* load: study.process_sequence / assay.process_sequence, by <<study, assay>>
    graphs,             \* load: study.graph / assay.graph, by <<study, assay>>
    values,             \* load: the Characteristic, FactorValue and ParameterValue objects built
    registered,         \* history: every <<registry, identifier>> assigned during the load
    error,              \* the exception that ended the load or the validation
    entry,              \* validation: the function called (validate_isajson, validate2 or one check)
    fp,                 \* validation: the document as the file holds it (what json.load(fp) returned)
    vpc,                \* validation: position in the function
    schema_ok,          \* validation: whether the document conforms to the investigation schema
    report,             \* validation: the diagnostics appended to the report (or printed), in order
    ran                 \* history: the checks that have been started, in order

graph_vars == <<process_sequence, gi, gpc, G, contribOut, contribIn>>

dicts == <<categories_dict, units_dict, protocols_dict, parameters_dict, factors_dict,
           sources_dict, samples_dict, process_dict, data_dict, other_materials_dict>>

load_vars == <<doc, lpc, si, ai, pi, dicts, sequences, graphs, values, registered, error>>

validate_vars == <<entry, fp, vpc, schema_ok, report, ran>>

vars == <<heap, graph_vars, load_vars, validate_vars>>

-----------------------------------------------------------------------------
(* Objects *)

Obj(cls, s, a, k) == [cls |-> cls, s |-> s, a |-> a, k |-> k]

NoneObj == Obj("None", 0, 0, 0)

isinstance(n, cls) == n.cls = cls

Range(f) == {f[i] : i \in DOMAIN f}

\* dict()
EmptyDict == <<>>

\* an optional key that is absent from its JSON object
NoKey == "<absent>"

NoItem == [category |-> NoKey, kind |-> "none", aid |-> NoKey, unit |-> NoKey]

NoError == [type |-> "none", site |-> "", id |-> "", item |-> NoItem]

Exception(type, site, id, item) == [type |-> type, site |-> site, id |-> id, item |-> item]

-----------------------------------------------------------------------------
(* networkx.DiGraph: a set of nodes and a set of directed edges *)

DiGraph == [nodes |-> {}, edges |-> {}]

add_edge(g, u, v) == [nodes |-> g.nodes \cup {u, v}, edges |-> g.edges \cup {<<u, v>>}]

add_edges(g, es) ==
    [nodes |-> g.nodes \cup {e[1] : e \in es} \cup {e[2] : e \in es},
     edges |-> g.edges \cup es]

-----------------------------------------------------------------------------
(* _build_assay_graph, lines 16-31 *)

\* lines 19-24 with the DataFile filter of line 21 left out
OutputEdgesUnfiltered(process, P) ==
    IF P.next_process # NoneObj \/ Len(P.outputs) > 0
    THEN IF Len(P.outputs) > 0
         THEN {<<process, P.outputs[j]>> : j \in 1..Len(P.outputs)}
         ELSE {<<process, P.next_process>>}
    ELSE {}

\* lines 19-24 chaining to next_process whenever it is set
OutputEdgesAlwaysChain(process, P) ==
    IF P.next_process # NoneObj \/ Len(P.outputs) > 0
    THEN {<<process, P.outputs[j]>> :
              j \in {i \in 1..Len(P.outputs) : ~isinstance(P.outputs[i], "DataFile")}}
         \cup (IF P.next_process # NoneObj THEN {<<process, P.next_process>>} ELSE {})
    ELSE {}

\* lines 19-24 without the test of line 19
OutputEdgesUnguarded(process, P) ==
    IF Len(P.outputs) > 0
    THEN {<<process, P.outputs[j]>> :
              j \in {i \in 1..Len(P.outputs) : ~isinstance(P.outputs[i], "DataFile")}}
    ELSE {<<process, P.next_process>>}

\* lines 19-24: the edges the output branch adds for one process
OutputEdges(process, P) ==
    IF P.next_process # NoneObj \/ Len(P.outputs) > 0
    THEN IF Len(P.outputs) > 0
         THEN {<<process, P.outputs[j]>> :
                   j \in {i \in 1..Len(P.outputs) : ~isinstance(P.outputs[i], "DataFile")}}
         ELSE {<<process, P.next_process>>}
    ELSE {}

\* lines 25-30 never falling back to prev_process
InputEdgesNoChain(process, P) ==
    IF Len(P.inputs) > 0
    THEN {<<P.inputs[j], process>> : j \in 1..Len(P.inputs)}
    ELSE {}

\* lines 25-30: the edges the input branch adds for one process
InputEdges(process, P) ==
    IF P.prev_process # NoneObj \/ Len(P.inputs) > 0
    THEN IF Len(P.inputs) > 0
         THEN {<<P.inputs[j], process>> : j \in 1..Len(P.inputs)}
         ELSE {<<P.prev_process, process>>}
    ELSE {}

RECURSIVE BuildFrom(_, _, _, _)
BuildFrom(seq, hp, i, g) ==
    IF i > Len(seq) THEN g
    ELSE BuildFrom(seq, hp, i + 1,
                   add_edges(add_edges(g, OutputEdges(seq[i], hp[seq[i]])),
                             InputEdges(seq[i], hp[seq[i]])))

\* the whole function: G after the loop over process_sequence
_build_assay_graph(seq, hp) == BuildFrom(seq, hp, 1, DiGraph)

-----------------------------------------------------------------------------
(* Inputs of _build_assay_graph: resolved Process objects *)

Src1 == Obj("Source", 1, 0, 1)
Smp1 == Obj("Sample", 1, 0, 1)
Mat1 == Obj("Material", 1, 1, 1)
Dat1 == Obj("DataFile", 1, 1, 1)

Proc(k) == Obj("Process", 1, 0, k)

\* a Process object of another process sequence (process_dict is shared by all sequences)
ExtProc == Obj("Process", 2, 0, 1)

InputLists == {<<>>, <<Src1>>, <<Smp1, Dat1>>}
OutputLists == {<<>>, <<Smp1>>, <<Dat1>>, <<Mat1, Dat1>>}

PairLen == {1, 2}

\* longest chain of processes linked one to the next
MaxChain == 3

ProcessObjects(links) ==
    [inputs : InputLists, outputs : OutputLists, prev_process : links, next_process : links]

\* every sequence of one or two processes, linked in every way
PairHeaps ==
    UNION {[{Proc(k) : k \in 1..n} ->
                ProcessObjects({NoneObj, ExtProc} \cup {Proc(k) : k \in 1..n})] : n \in PairLen}

ChainShapes ==
    {<<<<>>, <<>>>>, <<<<Src1>>, <<Smp1>>>>, <<<<Smp1>>, <<Mat1, Dat1>>>>, <<<<Smp1, Dat1>>, <<Dat1>>>>}

\* chains: process k names k-1 as previous and k+1 as next process
ChainHeaps ==
    UNION {{[p \in {Proc(k) : k \in 1..n} |->
                [inputs |-> sh[p.k][1], outputs |-> sh[p.k][2],
                 prev_process |-> IF p.k = 1 THEN NoneObj ELSE Proc(p.k - 1),
                 next_process |-> IF p.k = n THEN NoneObj ELSE Proc(p.k + 1)]] :
            sh \in [1..n -> ChainShapes]} : n \in 1..MaxChain}

GraphHeaps == PairHeaps \cup ChainHeaps

SequenceOf(hp) == [k \in 1..Cardinality(DOMAIN hp) |-> Proc(k)]

-----------------------------------------------------------------------------
(* _build_assay_graph as a state machine, one step per branch of the loop body *)

\* load is not running
LoadIdle ==
    /\ doc = [studies |-> <<>>]
    /\ lpc = "idle"
    /\ si = 0 /\ ai = 0 /\ pi = 0
    /\ categories_dict = EmptyDict /\ units_dict = EmptyDict /\ protocols_dict = EmptyDict
    /\ parameters_dict = EmptyDict /\ factors_dict = EmptyDict /\ sources_dict = EmptyDict
    /\ samples_dict = EmptyDict /\ process_dict = EmptyDict /\ data_dict = EmptyDict
    /\ other_materials_dict = EmptyDict
    /\ sequences = <<>> /\ graphs = <<>> /\ values = {} /\ registered = {}
    /\ error = NoError

\* no validation is running
ValidateIdle ==
    /\ entry = "none"
    /\ fp = [studies |-> <<>>]
    /\ vpc = "idle"
    /\ schema_ok = TRUE
    /\ report = <<>>
    /\ ran = <<>>

InitGraph ==
    /\ LoadIdle
    /\ ValidateIdle
    /\ heap \in GraphHeaps
    /\ process_sequence = SequenceOf(heap)
    /\ gi = 1
    /\ gpc = "outputs"
    /\ G = DiGraph
    /\ contribOut = [k \in 1..Len(process_sequence) |-> {}]
    /\ contribIn = [k \in 1..Len(process_sequence) |-> {}]

\* lines 19-24
GraphOutputs ==
    /\ gpc = "outputs"
    /\ gi <= Len(process_sequence)
    /\ LET process == process_sequence[gi]
           es == OutputEdges(process, heap[process])
       IN /\ G' = add_edges(G, es)
          /\ contribOut' = [contribOut EXCEPT ![gi] = es]
    /\ gpc' = "inputs"
    /\ UNCHANGED <<process_sequence, heap, gi, contribIn, load_vars, validate_vars>>

\* lines 25-30
GraphInputs ==
    /\ gpc = "inputs"
    /\ LET process == process_sequence[gi]
           es == InputEdges(process, heap[process])
       IN /\ G' = add_edges(G, es)
          /\ contribIn' = [contribIn EXCEPT ![gi] = es]
    /\ gi' = gi + 1
    /\ gpc' = "outputs"
    /\ UNCHANGED <<process_sequence, heap, contribOut, load_vars, validate_vars>>

\* line 31
GraphReturn ==
    /\ gpc = "outputs"
    /\ gi > Len(process_sequence)
    /\ gpc' = "returned"
    /\ UNCHANGED <<process_sequence, heap, gi, G, contribOut, contribIn, load_vars, validate_vars>>

NextGraph == GraphOutputs \/ GraphInputs \/ GraphReturn

SpecGraph == InitGraph /\ [][NextGraph]_vars

-----------------------------------------------------------------------------
(* Claims about _build_assay_graph *)

Returned == gpc = "returned"

ProcIdx == 1..Len(process_sequence)

P(i) == heap[process_sequence[i]]

Materials(list) == {n \in Range(list) : ~isinstance(n, "DataFile")}

\* a process has both its lists non-empty
BothPresent(i) == Len(P(i).inputs) > 0 /\ Len(P(i).outputs) > 0

\* edges of G between process i and an input/output entity
EntityEdgesInto(i) ==
    {e \in G.edges : e[2] = process_sequence[i] /\ ~isinstance(e[1], "Process")}

EntityEdgesOutOf(i) ==
    {e \in G.edges : e[1] = process_sequence[i] /\ ~isinstance(e[2], "Process")}

\* C1 (as stated): a process P with a material S2 among its outputs and a
\* next-process P2 gives the edge P->S2 and the graph never holds P->P2,
\* whatever P2 declares.
C1_Original ==
    Returned =>
        \A i \in ProcIdx : \A S2 \in Materials(P(i).outputs) :
            P(i).next_process # NoneObj =>
                /\ <<process_sequence[i], S2>> \in G.edges
                /\ <<process_sequence[i], P(i).next_process>> \notin G.edges

\* C1 (amended): a process P with a material S2 among its outputs and a
\* next-process P2 gives the edge P->S2, and the graph holds P->P2 only when
\* P2 is in the sequence, declares no inputs and has P as its previous-process.
C1_OutputsOverrideChaining ==
    Returned =>
        \A i \in ProcIdx : \A S2 \in Materials(P(i).outputs) :
            P(i).next_process # NoneObj =>
                /\ <<process_sequence[i], S2>> \in G.edges
                /\ <<process_sequence[i], P(i).next_process>> \in G.edges =>
                       /\ P(i).next_process \in Range(process_sequence)
                       /\ heap[P(i).next_process].inputs = <<>>
                       /\ heap[P(i).next_process].prev_process = process_sequence[i]

\* C1 witness: P has output Smp1 and next-process P2 (another process of the
\* sequence); the returned graph has P->Smp1 and lacks P->P2.
C1_Witness ==
    /\ Returned
    /\ \E i \in ProcIdx :
          /\ Smp1 \in Range(P(i).outputs)
          /\ P(i).next_process \in Range(process_sequence) \ {process_sequence[i]}
          /\ <<process_sequence[i], Smp1>> \in G.edges
          /\ <<process_sequence[i], P(i).next_process>> \notin G.edges

\* C2 (as stated): a process with inputs and outputs has one edge
\* input->process per declared input and one edge process->output per
\* declared output, for every kind of entity, data files included.
C2_Original ==
    Returned =>
        \A i \in ProcIdx : BothPresent(i) =>
            /\ EntityEdgesInto(i) = {<<n, process_sequence[i]>> : n \in Range(P(i).inputs)}
            /\ EntityEdgesOutOf(i) = {<<process_sequence[i], n>> : n \in Range(P(i).outputs)}

\* C2 (amended): a process with inputs and outputs has exactly one edge
\* input->process per declared input of any kind, and exactly one edge
\* process->output per declared output that is not a data file; a data-file
\* output gets no edge.
C2_EdgePerDeclaredIO ==
    Returned =>
        \A i \in ProcIdx : BothPresent(i) =>
            /\ EntityEdgesInto(i) = {<<n, process_sequence[i]>> : n \in Range(P(i).inputs)}
            /\ EntityEdgesOutOf(i) = {<<process_sequence[i], n>> : n \in Materials(P(i).outputs)}

\* C2 witness: a process with inputs [Smp1, Dat1] and outputs [Mat1, Dat1]:
\* edges from both inputs, an edge to Mat1, none to Dat1.
C2_Witness ==
    /\ Returned
    /\ \E i \in ProcIdx :
          /\ P(i).inputs = <<Smp1, Dat1>>
          /\ P(i).outputs = <<Mat1, Dat1>>
          /\ EntityEdgesInto(i) = {<<Smp1, process_sequence[i]>>, <<Dat1, process_sequence[i]>>}
          /\ EntityEdgesOutOf(i) = {<<process_sequence[i], Mat1>>}

\* C3: the output branch of a process adds the chaining edge
\* process->next-process iff its output list is empty and next-process is set;
\* the input branch adds previous-process->process iff its input list is
\* empty and previous-process is set.
C3_ChainingIffListEmpty ==
    Returned =>
        \A i \in ProcIdx :
            /\ <<process_sequence[i], P(i).next_process>> \in contribOut[i]
                   <=> (Len(P(i).outputs) = 0 /\ P(i).next_process # NoneObj)
            /\ <<P(i).prev_process, process_sequence[i]>> \in contribIn[i]
                   <=> (Len(P(i).inputs) = 0 /\ P(i).prev_process # NoneObj)

\* C3 witness: one process chained forward for want of outputs while another
\* with outputs and a next-process is not chained.
C3_Witness ==
    /\ Returned
    /\ \E i, j \in ProcIdx :
          /\ Len(P(i).outputs) = 0 /\ P(i).next_process # NoneObj
          /\ <<process_sequence[i], P(i).next_process>> \in G.edges
          /\ Len(P(i).inputs) = 0 /\ P(i).prev_process # NoneObj
          /\ <<P(i).prev_process, process_sequence[i]>> \in G.edges
          /\ Len(P(j).outputs) > 0 /\ P(j).next_process # NoneObj
          /\ contribOut[j] = {<<process_sequence[j], n>> : n \in Materials(P(j).outputs)}

\* C4 (as stated): no node of the returned graph is a DataFile, whether the
\* data file is an output or an input of a process.
C4_Original == Returned => \A n \in G.nodes : ~isinstance(n, "DataFile")

\* C4 (amended): a data file never enters the graph as an output: no edge
\* points to a DataFile, and every DataFile node is a declared input of a
\* process of the sequence (with its edge input->process).
C4_DataFilesOnlyAsInputs ==
    Returned =>
        /\ \A e \in G.edges : ~isinstance(e[2], "DataFile")
        /\ \A n \in G.nodes : isinstance(n, "DataFile") =>
               \E i \in ProcIdx :
                   /\ n \in Range(P(i).inputs)
                   /\ <<n, process_sequence[i]>> \in G.edges

\* C4 witness: a data file declared as an output of some process and as an
\* input of none is not a node of the returned graph.
C4_Witness ==
    /\ Returned
    /\ \E i \in ProcIdx : Dat1 \in Range(P(i).outputs)
    /\ \A i \in ProcIdx : Dat1 \notin Range(P(i).inputs)
    /\ Dat1 \notin G.nodes

-----------------------------------------------------------------------------
(* The document read by load.  Only the keys load resolves are kept:       *)
(* a study is [cats, units, protocols, factors, sources, samples, procs,   *)
(* assays], an assay is [cats, units, data, samples, others, procs]; every *)
(* termSource is '' (always in term_source_dict, line 54).                 *)

\* an identifier no object of the document declares
Undeclared == "zz"

ArrayDesignRef == "#parameter/Array_Design_REF"

\* a characteristic, factor value or parameter value:
\* {"category": {"@id": category}, "value": ..., "unit": {"@id": unit}};
\* aid is the "@id" of an annotation value that carries one
Kinds == {"annotation", "number", "string"}

ValueItems(categories) ==
    {v \in [category : categories, kind : Kinds, aid : {NoKey, "an1"},
            unit : {NoKey, "u1", "u2", Undeclared}] :
        v.aid # NoKey => v.kind = "annotation"}

\* most values in one characteristics, factorValues or parameterValues list
MaxValues == 1

ValueLists(categories) == UNION {[1..n -> ValueItems(categories)] : n \in 1..MaxValues}

ProcessJson(id, inputs, outputs, prev, next) ==
    [id |-> id, prot |-> "pr1", pvs |-> <<>>, inputs |-> inputs, outputs |-> outputs,
     prev |-> prev, next |-> next]

BaseAssay ==
    [cats |-> <<"c2">>, units |-> <<"u2">>, data |-> <<"d1">>, samples |-> <<"sa1">>,
     others |-> <<[id |-> "m1", chars |-> <<>>]>>,
     procs |-> <<ProcessJson("p2", <<"sa1">>, <<"m1", "d1">>, NoKey, NoKey)>>]

BaseStudy ==
    [cats |-> <<"c1">>, units |-> <<"u1">>,
     protocols |-> <<[id |-> "pr1", params |-> <<"pa1">>]>>,
     factors |-> <<"f1">>,
     sources |-> <<[id |-> "so1", chars |-> <<>>]>>,
     samples |-> <<[id |-> "sa1", chars |-> <<>>, fvs |-> <<>>]>>,
     procs |-> <<ProcessJson("p1", <<"so1">>, <<"sa1">>, NoKey, NoKey)>>,
     assays |-> <<BaseAssay>>]

OneStudy(study) == [studies |-> <<study>>]

\* documents that vary one list of values
ValueDocs ==
    {OneStudy([BaseStudy EXCEPT !.sources[1].chars = l]) : l \in ValueLists({"c1", "c2", Undeclared})}
    \cup {OneStudy([BaseStudy EXCEPT !.samples[1].chars = l]) : l \in ValueLists({"c1", "c2", Undeclared})}
    \cup {OneStudy([BaseStudy EXCEPT !.samples[1].fvs = l]) : l \in ValueLists({"f1", Undeclared})}
    \cup {OneStudy([BaseStudy EXCEPT !.procs[1].pvs = l]) : l \in ValueLists({"pa1", Undeclared})}
    \cup {OneStudy([BaseStudy EXCEPT !.assays[1].procs[1].pvs = l]) :
              l \in ValueLists({"pa1", ArrayDesignRef, Undeclared})}
    \cup {OneStudy([BaseStudy EXCEPT !.assays[1].others[1].chars = l]) :
              l \in ValueLists({"c1", "c2", Undeclared})}

\* processes that differ in their @id and links, with or without inputs and outputs
LinkedProcesses(inputs, outputs) ==
    {ProcessJson(id, io[1], io[2], prev, next) :
        id \in {"p1", "p2"}, io \in {<<<<>>, <<>>>>, <<inputs, outputs>>},
        prev \in {NoKey, "p1", "p2"}, next \in {NoKey, "p1", "p2"}}

PairsOf(S) == UNION {[1..n -> S] : n \in PairLen}

\* documents that vary the process sequence of the study or of the assay
LinkDocs ==
    {OneStudy([BaseStudy EXCEPT !.procs = l, !.assays[1].procs = <<>>]) :
        l \in PairsOf(LinkedProcesses(<<"so1">>, <<"sa1">>))}
    \cup {OneStudy([BaseStudy EXCEPT !.procs = sp, !.assays[1].procs = l]) :
              sp \in {<<>>, BaseStudy.procs,
                      <<ProcessJson("p3", <<>>, <<>>, NoKey, "p4"),
                        ProcessJson("p4", <<>>, <<>>, "p3", NoKey)>>},
              l \in PairsOf(LinkedProcesses(<<"sa1">>, <<"m1">>))}

ProcessIds == <<"p1", "p2", "p3", "p4", "p5">>

\* a chain of n processes, each naming its neighbours, all but the last by
\* a forward reference in nextProcess
ChainJson(n) ==
    [k \in 1..n |->
        ProcessJson(ProcessIds[k], <<>>, <<>>,
                    IF k = 1 THEN NoKey ELSE ProcessIds[k - 1],
                    IF k = n THEN NoKey ELSE ProcessIds[k + 1])]

ChainDocs ==
    {OneStudy([BaseStudy EXCEPT !.procs = ChainJson(n), !.assays[1].procs = <<>>]) : n \in 1..MaxChain}
    \cup {OneStudy([BaseStudy EXCEPT !.procs = <<>>, !.assays[1].procs = ChainJson(n)]) : n \in 1..MaxChain}

\* documents that declare the identifier "x" in any of the four material
\* registries and use it as an input or output of a study or assay process
Declare(study, where) ==
    [study EXCEPT
        !.sources = IF "sources" \in where THEN Append(@, [id |-> "x", chars |-> <<>>]) ELSE @,
        !.samples = IF "samples" \in where
                    THEN Append(@, [id |-> "x", chars |-> <<>>, fvs |-> <<>>]) ELSE @,
        !.assays[1].others = IF "others" \in where THEN Append(@, [id |-> "x", chars |-> <<>>]) ELSE @,
        !.assays[1].data = IF "data" \in where THEN Append(@, "x") ELSE @]

IODocs ==
    UNION {{OneStudy([Declare(BaseStudy, where) EXCEPT !.procs[1].inputs = <<"x">>]),
            OneStudy([Declare(BaseStudy, where) EXCEPT !.procs[1].outputs = <<"so1", "x">>]),
            OneStudy([Declare(BaseStudy, where) EXCEPT !.assays[1].procs[1].inputs = <<"x">>]),
            OneStudy([Declare(BaseStudy, where) EXCEPT !.assays[1].procs[1].outputs = <<"m1", "x">>])} :
        where \in SUBSET {"sources", "samples", "others", "data"}}

\* documents that declare an identifier twice in one list
DuplicateDocs ==
    {OneStudy([BaseStudy EXCEPT !.cats = <<"c1", "c1">>, !.sources[1].chars =
                   <<[category |-> "c1", kind |-> "string", aid |-> NoKey, unit |-> NoKey]>>]),
     OneStudy([BaseStudy EXCEPT !.units = <<"u1", "u1">>]),
     OneStudy([BaseStudy EXCEPT !.protocols = <<@[1], @[1]>>]),
     OneStudy([BaseStudy EXCEPT !.protocols[1].params = <<"pa1", "pa1">>]),
     OneStudy([BaseStudy EXCEPT !.factors = <<"f1", "f1">>]),
     OneStudy([BaseStudy EXCEPT !.sources = <<@[1], @[1]>>]),
     OneStudy([BaseStudy EXCEPT !.samples = <<@[1], @[1]>>]),
     OneStudy([BaseStudy EXCEPT !.assays[1].cats = <<"c2", "c2">>]),
     OneStudy([BaseStudy EXCEPT !.assays[1].units = <<"u2", "u2">>]),
     OneStudy([BaseStudy EXCEPT !.assays[1].data = <<"d1", "d1">>]),
     OneStudy([BaseStudy EXCEPT !.assays[1].others = <<@[1], @[1]>>]),
     OneStudy([BaseStudy EXCEPT !.assays = <<BaseAssay, BaseAssay>>])}

\* documents with no study, with two studies sharing their identifiers, with
\* an undeclared protocol or an undeclared assay sample
OtherDocs ==
    {[studies |-> <<>>],
     [studies |-> <<BaseStudy, BaseStudy>>],
     [studies |-> <<BaseStudy, [BaseStudy EXCEPT !.samples = <<>>, !.assays = <<>>]>>],
     OneStudy([BaseStudy EXCEPT !.assays = <<>>]),
     OneStudy([BaseStudy EXCEPT !.procs[1].prot = Undeclared]),
     OneStudy([BaseStudy EXCEPT !.assays[1].procs[1].prot = Undeclared]),
     OneStudy([BaseStudy EXCEPT !.assays[1].samples = <<Undeclared>>])}

Documents == ValueDocs \cup LinkDocs \cup ChainDocs \cup IODocs \cup DuplicateDocs \cup OtherDocs

-----------------------------------------------------------------------------
(* load, lines 14-634: registries and exceptions *)

\* dict[key] = obj with the first entry kept (dict.setdefault)
PutIfAbsent(dict, key, obj) ==
    [x \in DOMAIN dict \cup {key} |-> IF x \in DOMAIN dict THEN dict[x] ELSE obj]

\* dict[key] = obj
Put(dict, key, obj) ==
    [x \in DOMAIN dict \cup {key} |-> IF x = key THEN obj ELSE dict[x]]

\* "for k: dict[ids[k]] = objs[k]", from position k on
RECURSIVE PutAll(_, _, _, _)
PutAll(dict, ids, objs, k) ==
    IF k > Len(ids) THEN dict
    ELSE PutAll(Put(dict, ids[k], objs[k]), ids, objs, k + 1)

Objects(cls, s, a, n) == [k \in 1..n |-> Obj(cls, s, a, k)]

Ids(list) == [k \in DOMAIN list |-> list[k].id]

Keys(name, ids) == {<<name, ids[k]>> : k \in DOMAIN ids}

Min(S) == CHOOSE x \in S : \A y \in S : x <= y

\* the exception of the first element that raises, in list order
FirstRaise(errs) ==
    LET bad == {k \in DOMAIN errs : errs[k].type # "none"}
    IN IF bad = {} THEN NoError ELSE errs[Min(bad)]

\* the outcome of building one value: an exception, or the object's fields
Raised(err) == [err |-> err, category |-> NoneObj, value |-> "", unit |-> NoneObj]

Built(category, value, unit) ==
    [err |-> NoError, category |-> category, value |-> value, unit |-> unit]

-----------------------------------------------------------------------------
(* load: the five places that type a value *)

\* lines 286-308 (sources) and 318-341 (samples): Characteristic
StudyCharacteristic(site, c) ==
    IF c.category \notin DOMAIN categories_dict
    THEN Raised(Exception("KeyError", site, c.category, c))
    ELSE CASE c.kind = "annotation" ->
                  Built(categories_dict[c.category], "OntologyAnnotation", NoneObj)
           [] c.kind = "number" ->
                  IF c.unit = NoKey \/ c.unit \notin DOMAIN units_dict
                  THEN Raised(Exception("IOError", site, c.unit, c))
                  ELSE Built(categories_dict[c.category], "number", units_dict[c.unit])
           [] OTHER -> Built(categories_dict[c.category], "string", NoneObj)

\* lines 342-360: FactorValue; a value that is no dict raises TypeError and
\* is built by the except branch, which reads the unit
SampleFactorValue(site, fv) ==
    IF fv.category \notin DOMAIN factors_dict
    THEN Raised(Exception("KeyError", site, fv.category, fv))
    ELSE IF fv.kind = "annotation"
         THEN Built(factors_dict[fv.category], "OntologyAnnotation", NoneObj)
         ELSE IF fv.unit = NoKey \/ fv.unit \notin DOMAIN units_dict
              THEN Raised(Exception("KeyError", site, fv.unit, fv))
              ELSE Built(factors_dict[fv.category], fv.kind, units_dict[fv.unit])

\* lines 386-405: ParameterValue of a study process
StudyParameterValue(site, pv) ==
    IF pv.kind = "number"
    THEN IF pv.category \notin DOMAIN parameters_dict
         THEN Raised(Exception("KeyError", site, pv.category, pv))
         ELSE IF pv.unit = NoKey \/ pv.unit \notin DOMAIN units_dict
              THEN Raised(Exception("KeyError", site, pv.unit, pv))
              ELSE Built(parameters_dict[pv.category], "number", units_dict[pv.unit])
    ELSE IF pv.category \notin DOMAIN parameters_dict
         THEN Raised(Exception("KeyError", site, pv.category, pv))
         ELSE IF pv.kind = "annotation"
              THEN Built(parameters_dict[pv.category], "OntologyAnnotation", NoneObj)
              ELSE Built(parameters_dict[pv.category], "string", NoneObj)

\* lines 592-614: ParameterValue of an assay process; the Array Design REF
\* goes to additional_properties and no ParameterValue is built
AssayParameterValue(site, pv) ==
    IF pv.category = ArrayDesignRef
    THEN Built(NoneObj, "additional_properties", NoneObj)
    ELSE StudyParameterValue(site, pv)

\* lines 515-524: Characteristic of an other material; the value is always
\* subscripted as an annotation, a number or string raises TypeError
MaterialCharacteristic(site, c) ==
    IF c.category \notin DOMAIN categories_dict
    THEN Raised(Exception("KeyError", site, c.category, c))
    ELSE IF c.kind = "annotation"
         THEN Built(categories_dict[c.category], "OntologyAnnotation", NoneObj)
         ELSE Raised(Exception("TypeError", site, "", c))

\* the objects built from one list of values, for their owner
ValueObjects(site, owner, results) ==
    {[site |-> site, owner |-> owner, k |-> k, item |-> results[k].item,
      category |-> results[k].category, value |-> results[k].value,
      unit |-> results[k].unit] :
        k \in {j \in DOMAIN results : results[j].value # "additional_properties"}}

WithItem(list, results) ==
    [k \in DOMAIN list |->
        [err |-> results[k].err, category |-> results[k].category,
         value |-> results[k].value, unit |-> results[k].unit, item |-> list[k]]]

StudyCharacteristics(site, list) ==
    WithItem(list, [k \in DOMAIN list |-> StudyCharacteristic(site, list[k])])

SampleFactorValues(site, list) ==
    WithItem(list, [k \in DOMAIN list |-> SampleFactorValue(site, list[k])])

StudyParameterValues(site, list) ==
    WithItem(list, [k \in DOMAIN list |-> StudyParameterValue(site, list[k])])

AssayParameterValues(site, list) ==
    WithItem(list, [k \in DOMAIN list |-> AssayParameterValue(site, list[k])])

MaterialCharacteristics(site, list) ==
    WithItem(list, [k \in DOMAIN list |-> MaterialCharacteristic(site, list[k])])

ErrorsOf(results) == [k \in DOMAIN results |-> results[k].err]

-----------------------------------------------------------------------------
(* load: inputs and outputs of a process *)

\* lines 407-416 and 421-430 taking the first registry that has the identifier
ResolveStudyIOFirstMatch(id) ==
    IF id \in DOMAIN sources_dict THEN sources_dict[id]
    ELSE IF id \in DOMAIN samples_dict THEN samples_dict[id]
    ELSE NoneObj

\* lines 407-416 and 421-430: sources_dict, then samples_dict in the finally clause
ResolveStudyIO(id) ==
    LET input_0 == NoneObj
        input_1 == IF id \in DOMAIN sources_dict THEN sources_dict[id] ELSE input_0
        input_2 == IF id \in DOMAIN samples_dict THEN samples_dict[id] ELSE input_1
    IN input_2

\* lines 553-567 and 573-587 taking the first registry that has the identifier
ResolveAssayIOFirstMatch(id) ==
    IF id \in DOMAIN samples_dict THEN samples_dict[id]
    ELSE IF id \in DOMAIN other_materials_dict THEN other_materials_dict[id]
    ELSE IF id \in DOMAIN data_dict THEN data_dict[id]
    ELSE NoneObj

\* lines 553-567 and 573-587: samples_dict, other_materials_dict, data_dict
ResolveAssayIO(id) ==
    LET input_0 == NoneObj
        input_1 == IF id \in DOMAIN samples_dict THEN samples_dict[id] ELSE input_0
        input_2 == IF id \in DOMAIN other_materials_dict THEN other_materials_dict[id] ELSE input_1
        input_3 == IF id \in DOMAIN data_dict THEN data_dict[id] ELSE input_2
    IN input_3

\* lines 417-418, 431-432, 568-570, 588-590: "if input_ is None: raise IOError"
IOErrors(site, ids, resolved) ==
    [k \in DOMAIN ids |->
        IF resolved[k] = NoneObj THEN Exception("IOError", site, ids[k], NoItem) ELSE NoError]

\* lines 367 and 530: protocols_dict[...['executesProtocol']['@id']]
ProtocolError(site, id) ==
    IF id \in DOMAIN protocols_dict THEN NoError ELSE Exception("KeyError", site, id, NoItem)

-----------------------------------------------------------------------------
(* load: the second pass over a process sequence, lines 436-446 and 617-627 *)

\* lines 437-441 for one process; a KeyError of any lookup is passed over
LinkPrev(hp, pd, pj) ==
    IF pj.prev # NoKey /\ pj.prev \in DOMAIN pd /\ pj.id \in DOMAIN pd
    THEN [hp EXCEPT ![pd[pj.id]].prev_process = pd[pj.prev]]
    ELSE hp

\* lines 442-446 linking nothing
LinkNextNever(hp, pd, pj) == hp

\* lines 442-446 for one process
LinkNext(hp, pd, pj) ==
    IF pj.next # NoKey /\ pj.next \in DOMAIN pd /\ pj.id \in DOMAIN pd
    THEN [hp EXCEPT ![pd[pj.id]].next_process = pd[pj.next]]
    ELSE hp

RECURSIVE SecondPass(_, _, _, _)
SecondPass(hp, pd, jsons, j) ==
    IF j > Len(jsons) THEN hp
    ELSE SecondPass(LinkNext(LinkPrev(hp, pd, jsons[j]), pd, jsons[j]), pd, jsons, j + 1)

-----------------------------------------------------------------------------
(* load as a state machine, one step per section of the function *)

\* object.attribute = value, for the objects kept by identity
Assign(f, object, value) ==
    [x \in DOMAIN f \cup {object} |-> IF x = object THEN value ELSE f[x]]

study_json == doc.studies[si]

assay_json == study_json.assays[ai]

SequenceAt(s, a) == IF <<s, a>> \in DOMAIN sequences THEN sequences[<<s, a>>] ELSE <<>>

InitLoad ==
    /\ ValidateIdle
    /\ doc \in Documents
    /\ lpc = "prepass"
    /\ si = 1 /\ ai = 1 /\ pi = 1
    /\ categories_dict = EmptyDict /\ units_dict = EmptyDict /\ protocols_dict = EmptyDict
    /\ parameters_dict = EmptyDict /\ factors_dict = EmptyDict /\ sources_dict = EmptyDict
    /\ samples_dict = EmptyDict /\ process_dict = EmptyDict /\ data_dict = EmptyDict
    /\ other_materials_dict = EmptyDict
    /\ heap = <<>> /\ sequences = <<>> /\ graphs = <<>> /\ values = {} /\ registered = {}
    /\ error = NoError
    /\ process_sequence = <<>> /\ gi = 0 /\ gpc = "idle" /\ G = DiGraph
    /\ contribOut = <<>> /\ contribIn = <<>>

\* an exception leaves load: nothing is returned
Raise(err) ==
    /\ lpc' = "raised"
    /\ error' = err
    /\ UNCHANGED <<heap, graph_vars, validate_vars, doc, si, ai, pi, dicts, sequences, graphs, values, registered>>

RECURSIVE PrePassFrom(_, _, _)
PrePassFrom(dict, s, a) ==
    IF s > Len(doc.studies) THEN dict
    ELSE IF a > Len(doc.studies[s].assays) THEN PrePassFrom(dict, s + 1, 1)
    ELSE PrePassFrom(PutAll(dict, doc.studies[s].assays[a].cats,
                            Objects("CharacteristicCategoryPre", s, a,
                                    Len(doc.studies[s].assays[a].cats)), 1),
                     s, a + 1)

\* lines 124-135: the characteristicCategories of every assay of every study
LoadPrePass ==
    /\ lpc = "prepass"
    /\ categories_dict' = PrePassFrom(categories_dict, 1, 1)
    /\ registered' = registered \cup
           UNION {UNION {Keys("categories_dict", doc.studies[s].assays[a].cats) :
                             a \in DOMAIN doc.studies[s].assays} : s \in DOMAIN doc.studies}
    /\ lpc' = IF Len(doc.studies) >= 1 THEN "study_categories" ELSE "return"
    /\ UNCHANGED <<heap, graph_vars, validate_vars, doc, si, ai, pi, units_dict, protocols_dict, parameters_dict,
                   factors_dict, sources_dict, samples_dict, process_dict, data_dict,
                   other_materials_dict, sequences, graphs, values, error>>

\* lines 155-169: characteristicCategories and unitCategories of the study
StudyCategoriesUnits ==
    /\ lpc = "study_categories"
    /\ categories_dict' = PutAll(categories_dict, study_json.cats,
                                 Objects("CharacteristicCategory", si, 0, Len(study_json.cats)), 1)
    /\ units_dict' = PutAll(units_dict, study_json.units,
                            Objects("UnitCategory", si, 0, Len(study_json.units)), 1)
    /\ registered' = registered \cup Keys("categories_dict", study_json.cats)
                                \cup Keys("units_dict", study_json.units)
    /\ lpc' = "study_protocols"
    /\ UNCHANGED <<heap, graph_vars, validate_vars, doc, si, ai, pi, protocols_dict, parameters_dict,
                   factors_dict, sources_dict, samples_dict, process_dict, data_dict,
                   other_materials_dict, sequences, graphs, values, error>>

\* lines 244-254 for the protocols from position k on; the object of a
\* parameter is named by its study, its protocol and its position
RECURSIVE ParametersFrom(_, _, _)
ParametersFrom(dict, protocols, k) ==
    IF k > Len(protocols) THEN dict
    ELSE ParametersFrom(PutAll(dict, protocols[k].params,
                               Objects("ProtocolParameter", si, k, Len(protocols[k].params)), 1),
                        protocols, k + 1)

\* lines 230-266: protocols and their parameters
StudyProtocols ==
    /\ lpc = "study_protocols"
    /\ parameters_dict' = ParametersFrom(parameters_dict, study_json.protocols, 1)
    /\ protocols_dict' = PutAll(protocols_dict, Ids(study_json.protocols),
                                Objects("Protocol", si, 0, Len(study_json.protocols)), 1)
    /\ registered' = registered \cup Keys("protocols_dict", Ids(study_json.protocols))
           \cup UNION {Keys("parameters_dict", study_json.protocols[k].params) :
                           k \in DOMAIN study_json.protocols}
    /\ lpc' = "study_factors"
    /\ UNCHANGED <<heap, graph_vars, validate_vars, doc, si, ai, pi, categories_dict, units_dict,
                   factors_dict, sources_dict, samples_dict, process_dict, data_dict,
                   other_materials_dict, sequences, graphs, values, error>>

\* lines 267-279: factors
StudyFactors ==
    /\ lpc = "study_factors"
    /\ factors_dict' = PutAll(factors_dict, study_json.factors,
                              Objects("StudyFactor", si, 0, Len(study_json.factors)), 1)
    /\ registered' = registered \cup Keys("factors_dict", study_json.factors)
    /\ lpc' = "study_sources"
    /\ UNCHANGED <<heap, graph_vars, validate_vars, doc, si, ai, pi, categories_dict, units_dict, protocols_dict,
                   parameters_dict, sources_dict, samples_dict, process_dict, data_dict,
                   other_materials_dict, sequences, graphs, values, error>>

\* lines 280-310: sources and their characteristics
StudySources ==
    /\ lpc = "study_sources"
    /\ LET sources == study_json.sources
           site == "source.characteristics"
           chars == [k \in DOMAIN sources |-> StudyCharacteristics(site, sources[k].chars)]
           err == FirstRaise([k \in DOMAIN sources |-> FirstRaise(ErrorsOf(chars[k]))])
       IN IF err.type # "none" THEN Raise(err)
          ELSE /\ sources_dict' = PutAll(sources_dict, Ids(sources),
                                         Objects("Source", si, 0, Len(sources)), 1)
               /\ values' = values \cup
                      UNION {ValueObjects(site, Obj("Source", si, 0, k), chars[k]) :
                                 k \in DOMAIN sources}
               /\ registered' = registered \cup Keys("sources_dict", Ids(sources))
               /\ lpc' = "study_samples"
               /\ UNCHANGED <<heap, graph_vars, validate_vars, doc, si, ai, pi, categories_dict, units_dict,
                              protocols_dict, parameters_dict, factors_dict, samples_dict,
                              process_dict, data_dict, other_materials_dict, sequences, graphs,
                              error>>

\* lines 311-362: samples, their characteristics and factor values
StudySamples ==
    /\ lpc = "study_samples"
    /\ LET samples == study_json.samples
           chars == [k \in DOMAIN samples |->
                        StudyCharacteristics("sample.characteristics", samples[k].chars)]
           fvs == [k \in DOMAIN samples |->
                      SampleFactorValues("sample.factorValues", samples[k].fvs)]
           err == FirstRaise([k \in DOMAIN samples |->
                                 FirstRaise(ErrorsOf(chars[k]) \o ErrorsOf(fvs[k]))])
       IN IF err.type # "none" THEN Raise(err)
          ELSE /\ samples_dict' = PutAll(samples_dict, Ids(samples),
                                         Objects("Sample", si, 0, Len(samples)), 1)
               /\ values' = values \cup
                      UNION {ValueObjects("sample.characteristics", Obj("Sample", si, 0, k), chars[k])
                             \cup ValueObjects("sample.factorValues", Obj("Sample", si, 0, k), fvs[k]) :
                                 k \in DOMAIN samples}
               /\ registered' = registered \cup Keys("samples_dict", Ids(samples))
               /\ lpc' = "study_processes"
               /\ pi' = 1
               /\ UNCHANGED <<heap, graph_vars, validate_vars, doc, si, ai, categories_dict, units_dict,
                              protocols_dict, parameters_dict, factors_dict, sources_dict,
                              process_dict, data_dict, other_materials_dict, sequences, graphs,
                              error>>

NewProcess(inputs, outputs) ==
    [inputs |-> inputs, outputs |-> outputs, prev_process |-> NoneObj, next_process |-> NoneObj]

\* lines 363-435: one process of the study's processSequence (first pass)
StudyProcess ==
    /\ lpc = "study_processes"
    /\ pi <= Len(study_json.procs)
    /\ LET study_process_json == study_json.procs[pi]
           process == Obj("Process", si, 0, pi)
           pvs == StudyParameterValues("study.process.parameterValues", study_process_json.pvs)
           inputs == [k \in DOMAIN study_process_json.inputs |->
                         ResolveStudyIO(study_process_json.inputs[k])]
           outputs == [k \in DOMAIN study_process_json.outputs |->
                          ResolveStudyIO(study_process_json.outputs[k])]
           err == FirstRaise(
                      <<ProtocolError("study.process.executesProtocol", study_process_json.prot)>>
                      \o ErrorsOf(pvs)
                      \o IOErrors("study.process.inputs", study_process_json.inputs, inputs)
                      \o IOErrors("study.process.outputs", study_process_json.outputs, outputs))
       IN IF err.type # "none" THEN Raise(err)
          ELSE /\ heap' = Assign(heap, process, NewProcess(inputs, outputs))
               /\ values' = values \cup ValueObjects("study.process.parameterValues", process, pvs)
               /\ sequences' = Assign(sequences, <<si, 0>>, Append(SequenceAt(si, 0), process))
               /\ process_dict' = Put(process_dict, study_process_json.id, process)
               /\ registered' = registered \cup {<<"process_dict", study_process_json.id>>}
               /\ pi' = pi + 1
               /\ UNCHANGED <<graph_vars, validate_vars, doc, lpc, si, ai, categories_dict, units_dict,
                              protocols_dict, parameters_dict, factors_dict, sources_dict,
                              samples_dict, data_dict, other_materials_dict, graphs, error>>

\* lines 436-446: second pass over the study's processSequence
StudySecondPass ==
    /\ lpc = "study_processes"
    /\ pi > Len(study_json.procs)
    /\ heap' = SecondPass(heap, process_dict, study_json.procs, 1)
    /\ lpc' = "study_graph"
    /\ UNCHANGED <<graph_vars, validate_vars, doc, si, ai, pi, dicts, sequences, graphs, values, registered, error>>

\* line 447: study.graph
StudyGraph ==
    /\ lpc = "study_graph"
    /\ graphs' = Assign(graphs, <<si, 0>>, _build_assay_graph(SequenceAt(si, 0), heap))
    /\ lpc' = "assay_loop"
    /\ ai' = 1
    /\ UNCHANGED <<heap, graph_vars, validate_vars, doc, si, pi, dicts, sequences, values, registered, error>>

\* lines 448-489: the Assay object, its unitCategories and dataFiles
AssayDeclarations ==
    /\ lpc = "assay_loop"
    /\ ai <= Len(study_json.assays)
    /\ units_dict' = PutAll(units_dict, assay_json.units,
                            Objects("UnitCategory", si, ai, Len(assay_json.units)), 1)
    /\ data_dict' = PutAll(EmptyDict, assay_json.data,
                           Objects("DataFile", si, ai, Len(assay_json.data)), 1)
    /\ registered' = registered \cup Keys("units_dict", assay_json.units)
                                \cup Keys("data_dict", assay_json.data)
    /\ lpc' = "assay_samples"
    /\ UNCHANGED <<heap, graph_vars, validate_vars, doc, si, ai, pi, categories_dict, protocols_dict,
                   parameters_dict, factors_dict, sources_dict, samples_dict, process_dict,
                   other_materials_dict, sequences, graphs, values, error>>

\* lines 490-492: the samples of the assay, looked up in samples_dict
AssaySamples ==
    /\ lpc = "assay_samples"
    /\ LET err == FirstRaise([k \in DOMAIN assay_json.samples |->
                      IF assay_json.samples[k] \in DOMAIN samples_dict THEN NoError
                      ELSE Exception("KeyError", "assay.materials.samples",
                                     assay_json.samples[k], NoItem)])
       IN IF err.type # "none" THEN Raise(err)
          ELSE /\ lpc' = "assay_categories"
               /\ UNCHANGED <<heap, graph_vars, validate_vars, doc, si, ai, pi, dicts, sequences, graphs,
                              values, registered, error>>

\* lines 493-501: characteristicCategories of the assay, built a second time
AssayCategories ==
    /\ lpc = "assay_categories"
    /\ categories_dict' = PutAll(categories_dict, assay_json.cats,
                                 Objects("CharacteristicCategory", si, ai, Len(assay_json.cats)), 1)
    /\ registered' = registered \cup Keys("categories_dict", assay_json.cats)
    /\ lpc' = "assay_materials"
    /\ UNCHANGED <<heap, graph_vars, validate_vars, doc, si, ai, pi, units_dict, protocols_dict, parameters_dict,
                   factors_dict, sources_dict, samples_dict, process_dict, data_dict,
                   other_materials_dict, sequences, graphs, values, error>>

\* lines 502-526: otherMaterials and their characteristics
AssayOtherMaterials ==
    /\ lpc = "assay_materials"
    /\ LET others == assay_json.others
           site == "otherMaterial.characteristics"
           chars == [k \in DOMAIN others |-> MaterialCharacteristics(site, others[k].chars)]
           err == FirstRaise([k \in DOMAIN others |-> FirstRaise(ErrorsOf(chars[k]))])
       IN IF err.type # "none" THEN Raise(err)
          ELSE /\ other_materials_dict' = PutAll(EmptyDict, Ids(others),
                                                 Objects("Material", si, ai, Len(others)), 1)
               /\ values' = values \cup
                      UNION {ValueObjects(site, Obj("Material", si, ai, k), chars[k]) :
                                 k \in DOMAIN others}
               /\ registered' = registered \cup Keys("other_materials_dict", Ids(others))
               /\ lpc' = "assay_processes"
               /\ pi' = 1
               /\ UNCHANGED <<heap, graph_vars, validate_vars, doc, si, ai, categories_dict, units_dict,
                              protocols_dict, parameters_dict, factors_dict, sources_dict,
                              samples_dict, process_dict, data_dict, sequences, graphs, error>>

\* lines 527-628: one process of the assay's processSequence, then the second
\* pass over the whole processSequence and assay.graph, both inside the loop
AssayProcess ==
    /\ lpc = "assay_processes"
    /\ pi <= Len(assay_json.procs)
    /\ LET assay_process_json == assay_json.procs[pi]
           process == Obj("Process", si, ai, pi)
           inputs == [k \in DOMAIN assay_process_json.inputs |->
                         ResolveAssayIO(assay_process_json.inputs[k])]
           outputs == [k \in DOMAIN assay_process_json.outputs |->
                          ResolveAssayIO(assay_process_json.outputs[k])]
           pvs == AssayParameterValues("assay.process.parameterValues", assay_process_json.pvs)
           err == FirstRaise(
                      <<ProtocolError("assay.process.executesProtocol", assay_process_json.prot)>>
                      \o IOErrors("assay.process.inputs", assay_process_json.inputs, inputs)
                      \o IOErrors("assay.process.outputs", assay_process_json.outputs, outputs)
                      \o ErrorsOf(pvs))
           process_sequence_1 == Append(SequenceAt(si, ai), process)
           process_dict_1 == Put(process_dict, assay_process_json.id, process)
           heap_1 == SecondPass(Assign(heap, process, NewProcess(inputs, outputs)),
                                process_dict_1, assay_json.procs, 1)
       IN IF err.type # "none" THEN Raise(err)
          ELSE /\ heap' = heap_1
               /\ values' = values \cup ValueObjects("assay.process.parameterValues", process, pvs)
               /\ sequences' = Assign(sequences, <<si, ai>>, process_sequence_1)
               /\ process_dict' = process_dict_1
               /\ graphs' = Assign(graphs, <<si, ai>>, _build_assay_graph(process_sequence_1, heap_1))
               /\ registered' = registered \cup {<<"process_dict", assay_process_json.id>>}
               /\ pi' = pi + 1
               /\ UNCHANGED <<graph_vars, validate_vars, doc, lpc, si, ai, categories_dict, units_dict,
                              protocols_dict, parameters_dict, factors_dict, sources_dict,
                              samples_dict, data_dict, other_materials_dict, error>>

\* line 629: study.assays.append(assay)
AssayAppend ==
    /\ lpc = "assay_processes"
    /\ pi > Len(assay_json.procs)
    /\ ai' = ai + 1
    /\ lpc' = "assay_loop"
    /\ UNCHANGED <<heap, graph_vars, validate_vars, doc, si, pi, dicts, sequences, graphs, values, registered, error>>

\* lines 630-631: investigation.studies.append(study), on to the next study
StudyAppend ==
    /\ lpc = "assay_loop"
    /\ ai > Len(study_json.assays)
    /\ si' = si + 1
    /\ lpc' = IF si + 1 <= Len(doc.studies) THEN "study_categories" ELSE "return"
    /\ UNCHANGED <<heap, graph_vars, validate_vars, doc, ai, pi, dicts, sequences, graphs, values, registered, error>>

\* line 634: return investigation
LoadReturn ==
    /\ lpc = "return"
    /\ lpc' = "returned"
    /\ UNCHANGED <<heap, graph_vars, validate_vars, doc, si, ai, pi, dicts, sequences, graphs, values, registered, error>>

NextLoad ==
    \/ LoadPrePass \/ StudyCategoriesUnits \/ StudyProtocols \/ StudyFactors
    \/ StudySources \/ StudySamples \/ StudyProcess \/ StudySecondPass \/ StudyGraph
    \/ AssayDeclarations \/ AssaySamples \/ AssayCategories \/ AssayOtherMaterials
    \/ AssayProcess \/ AssayAppend \/ StudyAppend \/ LoadReturn

SpecLoad == InitLoad /\ [][NextLoad]_vars

-----------------------------------------------------------------------------
(* Claims about load *)

LoadReturned == lpc = "returned"

LoadRaised == lpc = "raised"

\* the process sequences of the document: <<s, 0>> for study s, <<s, a>> for its assay a
Containers ==
    UNION {{<<s, a>> : a \in 0..Len(doc.studies[s].assays)} : s \in DOMAIN doc.studies}

ProcessesJson(c) ==
    IF c[2] = 0 THEN doc.studies[c[1]].procs ELSE doc.studies[c[1]].assays[c[2]].procs

ProcessAt(c, k) == Obj("Process", c[1], c[2], k)

\* the number of processes of the whole document that carry the identifier
Declarations(id) ==
    UNION {{<<c, k>> : k \in {j \in DOMAIN ProcessesJson(c) : ProcessesJson(c)[j].id = id}} :
               c \in Containers}

NamesOneProcess(id) == Cardinality(Declarations(id)) = 1

GraphAt(c) == IF c \in DOMAIN graphs THEN graphs[c] ELSE DiGraph

-----------------------------------------------------------------------------
(* What the document declares and references, read off the document *)

Studies == DOMAIN doc.studies

Assays(s) == DOMAIN doc.studies[s].assays

Flatten(sets) == UNION sets

\* identifiers declared anywhere in the document, by namespace
DeclaredCategories ==
    UNION {Range(doc.studies[s].cats)
           \cup UNION {Range(doc.studies[s].assays[a].cats) : a \in Assays(s)} : s \in Studies}

DeclaredUnits ==
    UNION {Range(doc.studies[s].units)
           \cup UNION {Range(doc.studies[s].assays[a].units) : a \in Assays(s)} : s \in Studies}

DeclaredProtocols == UNION {Range(Ids(doc.studies[s].protocols)) : s \in Studies}

DeclaredParameters ==
    UNION {UNION {Range(doc.studies[s].protocols[k].params) :
                      k \in DOMAIN doc.studies[s].protocols} : s \in Studies}

DeclaredFactors == UNION {Range(doc.studies[s].factors) : s \in Studies}

DeclaredMaterials ==
    UNION {Range(Ids(doc.studies[s].sources)) \cup Range(Ids(doc.studies[s].samples))
           \cup UNION {Range(Ids(doc.studies[s].assays[a].others))
                       \cup Range(doc.studies[s].assays[a].data) : a \in Assays(s)} : s \in Studies}

DeclaredProcesses == UNION {Range(Ids(ProcessesJson(c))) : c \in Containers}

ValuesOf(lists) == UNION {Range(l) : l \in lists}

\* the characteristics, factor values and parameter values of the document
AllCharacteristics ==
    UNION {ValuesOf({doc.studies[s].sources[k].chars : k \in DOMAIN doc.studies[s].sources})
           \cup ValuesOf({doc.studies[s].samples[k].chars : k \in DOMAIN doc.studies[s].samples})
           \cup UNION {ValuesOf({doc.studies[s].assays[a].others[k].chars :
                                     k \in DOMAIN doc.studies[s].assays[a].others}) :
                           a \in Assays(s)} : s \in Studies}

AllFactorValues ==
    UNION {ValuesOf({doc.studies[s].samples[k].fvs : k \in DOMAIN doc.studies[s].samples}) :
               s \in Studies}

AllProcessesJson == UNION {Range(ProcessesJson(c)) : c \in Containers}

AllParameterValues == ValuesOf({p.pvs : p \in AllProcessesJson})

\* every reference of the document to an identifier its namespace does not declare
UnresolvedReferences ==
    {<<"category", v.category>> : v \in {c \in AllCharacteristics : c.category \notin DeclaredCategories}}
    \cup {<<"category", v.category>> : v \in {f \in AllFactorValues : f.category \notin DeclaredFactors}}
    \cup {<<"category", v.category>> :
              v \in {q \in AllParameterValues :
                        q.category \notin DeclaredParameters \cup {ArrayDesignRef}}}
    \cup {<<"unit", v.unit>> :
              v \in {n \in AllCharacteristics \cup AllFactorValues \cup AllParameterValues :
                        n.kind = "number" /\ n.category # ArrayDesignRef
                        /\ n.unit # NoKey /\ n.unit \notin DeclaredUnits}}
    \cup {<<"executesProtocol", p.prot>> :
              p \in {q \in AllProcessesJson : q.prot \notin DeclaredProtocols}}
    \cup {<<"inputs", id>> :
              id \in UNION {Range(p.inputs) : p \in AllProcessesJson} \ DeclaredMaterials}
    \cup {<<"outputs", id>> :
              id \in UNION {Range(p.outputs) : p \in AllProcessesJson} \ DeclaredMaterials}
    \cup {<<"previousProcess", p.prev>> :
              p \in {q \in AllProcessesJson : q.prev # NoKey /\ q.prev \notin DeclaredProcesses}}
    \cup {<<"nextProcess", p.next>> :
              p \in {q \in AllProcessesJson : q.next # NoKey /\ q.next \notin DeclaredProcesses}}

\* C6: load never returns an Investigation for a document that holds a
\* reference (category, required unit, executesProtocol, input, output,
\* previousProcess, nextProcess) to an identifier declared nowhere in its
\* namespace.
C6_FailFastOnUnresolved == LoadReturned => UnresolvedReferences = {}

-----------------------------------------------------------------------------
(* The declarations of the document, in the order load registers them *)

RECURSIVE Concat(_)
Concat(seqs) == IF seqs = <<>> THEN <<>> ELSE Head(seqs) \o Concat(Tail(seqs))

Declared(ids, cls, s, a) == [k \in DOMAIN ids |-> [id |-> ids[k], obj |-> Obj(cls, s, a, k)]]

\* the declarations of study s that go to one registry (the pre-pass of lines
\* 124-135 registers the assay categories once more, ahead of all of these)
DeclarationsOf(name, s) ==
    LET study == doc.studies[s]
        InAssays(Decls(_)) == Concat([a \in DOMAIN study.assays |-> Decls(a)])
        AssayCats(a) == Declared(study.assays[a].cats, "CharacteristicCategory", s, a)
        AssayUnits(a) == Declared(study.assays[a].units, "UnitCategory", s, a)
        AssayProcs(a) == Declared(Ids(study.assays[a].procs), "Process", s, a)
    IN CASE name = "categories_dict" ->
                Declared(study.cats, "CharacteristicCategory", s, 0) \o InAssays(AssayCats)
         [] name = "units_dict" ->
                Declared(study.units, "UnitCategory", s, 0) \o InAssays(AssayUnits)
         [] name = "protocols_dict" -> Declared(Ids(study.protocols), "Protocol", s, 0)
         [] name = "parameters_dict" ->
                Concat([k \in DOMAIN study.protocols |->
                           Declared(study.protocols[k].params, "ProtocolParameter", s, k)])
         [] name = "factors_dict" -> Declared(study.factors, "StudyFactor", s, 0)
         [] name = "sources_dict" -> Declared(Ids(study.sources), "Source", s, 0)
         [] name = "samples_dict" -> Declared(Ids(study.samples), "Sample", s, 0)
         [] name = "process_dict" ->
                Declared(Ids(study.procs), "Process", s, 0) \o InAssays(AssayProcs)

AllDeclarations(name) == Concat([s \in DOMAIN doc.studies |-> DeclarationsOf(name, s)])

\* the registries that live through the whole load
Registries ==
    {"categories_dict", "units_dict", "protocols_dict", "parameters_dict", "factors_dict",
     "sources_dict", "samples_dict", "process_dict"}

Registry(name) ==
    CASE name = "categories_dict" -> categories_dict
      [] name = "units_dict" -> units_dict
      [] name = "protocols_dict" -> protocols_dict
      [] name = "parameters_dict" -> parameters_dict
      [] name = "factors_dict" -> factors_dict
      [] name = "sources_dict" -> sources_dict
      [] name = "samples_dict" -> samples_dict
      [] name = "process_dict" -> process_dict

Max(S) == CHOOSE x \in S : \A y \in S : x >= y

Positions(decls, id) == {k \in DOMAIN decls : decls[k].id = id}

FirstDeclared(decls, id) == decls[Min(Positions(decls, id))].obj

LastDeclared(decls, id) == decls[Max(Positions(decls, id))].obj

DeclaredIds(decls) == {decls[k].id : k \in DOMAIN decls}

\* C7 (as stated): the registries are write-once: a load that returns has
\* met no identifier twice in one registry, so every identifier maps to the
\* entity its first declaration registered.
C7_Original ==
    LoadReturned =>
        \A name \in Registries : \A id \in DOMAIN Registry(name) :
            /\ Cardinality(Positions(AllDeclarations(name), id)) = 1
            /\ Registry(name)[id] = FirstDeclared(AllDeclarations(name), id)

\* C7 (amended): the registries are last-write-wins: load never fails on an
\* identifier declared twice in one registry; the later declaration replaces
\* the entity registered first, so after load every identifier maps to the
\* entity of its last declaration (within one assay, for data files and
\* other materials).
C7_LastDeclarationWins ==
    /\ LoadReturned =>
           \A name \in Registries :
               /\ DOMAIN Registry(name) = DeclaredIds(AllDeclarations(name))
               /\ \A id \in DOMAIN Registry(name) :
                      Registry(name)[id] = LastDeclared(AllDeclarations(name), id)
    /\ lpc = "assay_processes" =>
           /\ DOMAIN data_dict = Range(assay_json.data)
           /\ \A id \in DOMAIN data_dict :
                  data_dict[id] = LastDeclared(Declared(assay_json.data, "DataFile", si, ai), id)
           /\ DOMAIN other_materials_dict = Range(Ids(assay_json.others))
           /\ \A id \in DOMAIN other_materials_dict :
                  other_materials_dict[id] =
                      LastDeclared(Declared(Ids(assay_json.others), "Material", si, ai), id)

\* C7 witness: load has returned a document that declares one protocol @id
\* twice; protocols_dict holds the second Protocol, not the first.
C7_Witness ==
    /\ LoadReturned
    /\ \E id \in DOMAIN protocols_dict :
          /\ Cardinality(Positions(AllDeclarations("protocols_dict"), id)) = 2
          /\ protocols_dict[id] = LastDeclared(AllDeclarations("protocols_dict"), id)
          /\ protocols_dict[id] # FirstDeclared(AllDeclarations("protocols_dict"), id)

-----------------------------------------------------------------------------
(* Resolution of inputs and outputs *)

\* the process built by the last step of a process loop, and its JSON
AfterProcessStep == lpc \in {"study_processes", "assay_processes"} /\ pi > 1

LastBuilt == Obj("Process", si, IF lpc = "study_processes" THEN 0 ELSE ai, pi - 1)

LastBuiltJson ==
    IF lpc = "study_processes" THEN study_json.procs[pi - 1] ELSE assay_json.procs[pi - 1]

IOSites ==
    {"study.process.inputs", "study.process.outputs", "assay.process.inputs", "assay.process.outputs"}

\* the entity of the last of the given registries that has the identifier
LastMatch(registries, id) ==
    LET having == {k \in DOMAIN registries : id \in DOMAIN registries[k]}
    IN IF having = {} THEN NoneObj ELSE registries[Max(having)][id]

\* the inputs and outputs of the last built process are the entities of the
\* last of the given registries that declares them
ResolvedAs(registries) ==
    /\ \A k \in DOMAIN LastBuiltJson.inputs :
           /\ heap[LastBuilt].inputs[k] = LastMatch(registries, LastBuiltJson.inputs[k])
           /\ heap[LastBuilt].inputs[k] # NoneObj
    /\ \A k \in DOMAIN LastBuiltJson.outputs :
           /\ heap[LastBuilt].outputs[k] = LastMatch(registries, LastBuiltJson.outputs[k])
           /\ heap[LastBuilt].outputs[k] # NoneObj

FourRegistries == <<sources_dict, samples_dict, other_materials_dict, data_dict>>

\* C8 (as stated): every input and output of a process resolves to the
\* entity of the last of sources, samples, other materials, data files that
\* declares the identifier, and load raises only when none of the four does.
C8_Original ==
    /\ AfterProcessStep => ResolvedAs(FourRegistries)
    /\ (LoadRaised /\ error.site \in IOSites) => LastMatch(FourRegistries, error.id) = NoneObj

StudyRegistries == <<sources_dict, samples_dict>>

AssayRegistries == <<samples_dict, other_materials_dict, data_dict>>

\* C8 (amended): an input or output of a study-level process resolves in
\* sources then samples, one of an assay-level process in samples, then the
\* assay's other materials, then the assay's data files; it yields the entity
\* of the last consulted registry that declares the identifier, and load
\* aborts with an error naming the identifier iff no consulted registry does.
C8_LastMatchWins ==
    /\ (lpc = "study_processes" /\ pi > 1) => ResolvedAs(StudyRegistries)
    /\ (lpc = "assay_processes" /\ pi > 1) => ResolvedAs(AssayRegistries)
    /\ (LoadRaised /\ error.site \in {"study.process.inputs", "study.process.outputs"}) =>
           /\ error.type = "IOError"
           /\ error.id \in Range(study_json.procs[pi].inputs) \cup Range(study_json.procs[pi].outputs)
           /\ LastMatch(StudyRegistries, error.id) = NoneObj
    /\ (LoadRaised /\ error.site \in {"assay.process.inputs", "assay.process.outputs"}) =>
           /\ error.type = "IOError"
           /\ error.id \in Range(assay_json.procs[pi].inputs) \cup Range(assay_json.procs[pi].outputs)
           /\ LastMatch(AssayRegistries, error.id) = NoneObj

\* C8 witness: an assay process whose input "x" is declared as a sample, as
\* an other material and as a data file has been built with the DataFile.
C8_Witness ==
    /\ lpc = "assay_processes" /\ pi > 1
    /\ LastBuiltJson.inputs = <<"x">>
    /\ "x" \in DOMAIN samples_dict \cap DOMAIN other_materials_dict \cap DOMAIN data_dict
    /\ heap[LastBuilt].inputs = <<data_dict["x"]>>
    /\ isinstance(data_dict["x"], "DataFile")

-----------------------------------------------------------------------------
(* Value typing *)

\* C9: at every place that types a value (characteristics of sources,
\* samples and other materials, factor values, parameter values) an
\* annotation becomes an OntologyAnnotation, a number takes a unit and load
\* fails without one, and a string that comes with no unit is stored as it
\* is, with no unit, and makes load fail only through its category.
C9_SameThreeWayBranch ==
    /\ \A v \in values :
           /\ v.item.kind = "annotation" => v.value = "OntologyAnnotation"
           /\ v.item.kind = "number" => (v.value = "number" /\ v.unit # NoneObj)
           /\ (v.item.kind = "string" /\ v.item.unit = NoKey) =>
                  (v.value = "string" /\ v.unit = NoneObj)
    /\ LoadReturned =>
           \A v \in AllCharacteristics \cup AllFactorValues \cup AllParameterValues :
               (v.kind = "number" /\ v.category # ArrayDesignRef) => v.unit # NoKey
    /\ (LoadRaised /\ error.item.kind = "string" /\ error.item.unit = NoKey) =>
           (error.type = "KeyError" /\ error.id = error.item.category)

-----------------------------------------------------------------------------
(* The document as the JSON tree the walkers of validate_isajson traverse.  *)
(* A dict is the list of its (key, value) pairs in insertion order, the     *)
(* order keys() yields them; a list is the sequence of its items.  Only the *)
(* keys that hold identifiers, values or nested objects are written out;    *)
(* the other keys load reads hold scalars, shown by "name".                 *)

JDict(pairs) == [t |-> "dict", items |-> pairs]

JList(items) == [t |-> "list", items |-> items]

JStr(v) == [t |-> "str", v |-> v]

JNum(v) == [t |-> "num", v |-> v]

keys(d) == {d.items[i][1] : i \in DOMAIN d.items}

Get(d, key) == d.items[CHOOSE i \in DOMAIN d.items : d.items[i][1] = key][2]

Ref(id) == JDict(<< <<"@id", JStr(id)>> >>)

Refs(ids) == JList([k \in DOMAIN ids |-> Ref(ids[k])])

OptionalRef(key, id) == IF id = NoKey THEN <<>> ELSE << <<key, Ref(id)>> >>

\* a key of the abstract document that only some documents carry
Field(r, name, default) == IF name \in DOMAIN r THEN r[name] ELSE default

Optional(key, value, node) == IF value = NoKey THEN <<>> ELSE << <<key, node>> >>

\* {"annotationValue": .., "termSource": ts, "termAccession": ..}, with "@id" if it has one
AnnotationWith(aid, ts) ==
    JDict(Optional("@id", aid, JStr(aid))
          \o << <<"annotationValue", JStr("v")>>, <<"termSource", JStr(ts)>>,
                <<"termAccession", JStr("")>> >>)

AnnotationJson(aid) == AnnotationWith(aid, "")

ValueJson(v) ==
    JDict(<< <<"category", Ref(v.category)>>,
             <<"value", CASE v.kind = "annotation" -> AnnotationWith(v.aid, Field(v, "ts", ""))
                          [] v.kind = "number" -> JNum(5)
                          [] OTHER -> JStr("v")>> >>
          \o OptionalRef("unit", v.unit))

ValuesJson(list) == JList([k \in DOMAIN list |-> ValueJson(list[k])])

CategoryJson(id, ts) ==
    JDict(<< <<"@id", JStr(id)>>, <<"characteristicType", AnnotationWith(NoKey, ts)>> >>)

UnitJson(id, ts) == AnnotationWith(id, ts)

ParameterJson(id) ==
    JDict(<< <<"@id", JStr(id)>>, <<"parameterName", AnnotationJson(NoKey)>> >>)

ProtocolJson(p) ==
    JDict(<< <<"@id", JStr(p.id)>>, <<"name", JStr(Field(p, "name", "v"))>>,
             <<"protocolType", AnnotationJson(NoKey)>>,
             <<"parameters", JList([k \in DOMAIN p.params |-> ParameterJson(p.params[k])])>>,
             <<"components", JList(<<>>)>> >>)

FactorJson(id, name) ==
    JDict(<< <<"@id", JStr(id)>>, <<"factorName", JStr(name)>>,
             <<"factorType", AnnotationJson(NoKey)>> >>)

SourceJson(m) ==
    JDict(<< <<"@id", JStr(m.id)>>, <<"name", JStr("source-v")>>,
             <<"characteristics", ValuesJson(m.chars)>> >>)

SampleJson(m) ==
    JDict(<< <<"@id", JStr(m.id)>>, <<"name", JStr("sample-v")>>,
             <<"derivesFrom", JList(<<>>)>>,
             <<"characteristics", ValuesJson(m.chars)>>,
             <<"factorValues", ValuesJson(m.fvs)>> >>)

MaterialJson(m) ==
    JDict(<< <<"@id", JStr(m.id)>>, <<"name", JStr("extract-v")>>,
             <<"type", JStr("Extract Name")>> >>
          \o IF Field(m, "characteristics_absent", FALSE) THEN <<>>
             ELSE << <<"characteristics", ValuesJson(m.chars)>> >>)

DataFileJson(id) ==
    JDict(<< <<"@id", JStr(id)>>, <<"name", JStr("v")>>, <<"type", JStr("Raw Data File")>> >>)

ProcessToJson(p) ==
    JDict(<< <<"@id", JStr(p.id)>>, <<"executesProtocol", Ref(p.prot)>>,
             <<"parameterValues", ValuesJson(p.pvs)>>,
             <<"inputs", Refs(p.inputs)>>, <<"outputs", Refs(p.outputs)>> >>
          \o Optional("date", Field(p, "date", NoKey), JStr(Field(p, "date", NoKey)))
          \o OptionalRef("previousProcess", p.prev)
          \o OptionalRef("nextProcess", p.next))

PublicationJson(pub) ==
    JDict(<< <<"pubMedID", JStr(pub.pubMedID)>>, <<"doi", JStr(pub.doi)>> >>)

PublicationsJson(r) ==
    LET list == Field(r, "publications", <<>>)
    IN JList([k \in DOMAIN list |-> PublicationJson(list[k])])

OntologySourceJson(name) ==
    JDict(<< <<"name", JStr(name)>>, <<"file", JStr("")>>, <<"version", JStr("")>>,
             <<"description", JStr("")>> >>)

AssayToJson(assay) ==
    JDict(<< <<"filename", JStr(Field(assay, "filename", "a.txt"))>>,
             <<"characteristicCategories",
               JList([k \in DOMAIN assay.cats |->
                         CategoryJson(assay.cats[k], Field(assay, "type_ts", ""))])>>,
             <<"unitCategories",
               JList([k \in DOMAIN assay.units |->
                         UnitJson(assay.units[k], Field(assay, "unit_ts", ""))])>>,
             <<"dataFiles", JList([k \in DOMAIN assay.data |-> DataFileJson(assay.data[k])])>>,
             <<"materials",
               JDict(<< <<"samples", Refs(assay.samples)>>,
                        <<"otherMaterials",
                          JList([k \in DOMAIN assay.others |-> MaterialJson(assay.others[k])])>> >>)>>,
             <<"processSequence",
               JList([k \in DOMAIN assay.procs |-> ProcessToJson(assay.procs[k])])>> >>)

StudyToJson(study) ==
    JDict(<< <<"identifier", JStr(Field(study, "identifier", "s1"))>>,
             <<"filename", JStr(Field(study, "filename", "s.txt"))>>,
             <<"publicReleaseDate", JStr(Field(study, "publicReleaseDate", ""))>>,
             <<"submissionDate", JStr(Field(study, "submissionDate", ""))>>,
             <<"publications", PublicationsJson(study)>>,
             <<"characteristicCategories",
               JList([k \in DOMAIN study.cats |->
                         CategoryJson(study.cats[k], Field(study, "type_ts", ""))])>>,
             <<"unitCategories",
               JList([k \in DOMAIN study.units |->
                         UnitJson(study.units[k], Field(study, "unit_ts", ""))])>>,
             <<"protocols",
               JList([k \in DOMAIN study.protocols |-> ProtocolJson(study.protocols[k])])>>,
             <<"factors",
               JList([k \in DOMAIN study.factors |->
                         FactorJson(study.factors[k], Field(study, "factorName", "v"))])>>,
             <<"materials",
               JDict(<< <<"sources",
                          JList([k \in DOMAIN study.sources |-> SourceJson(study.sources[k])])>>,
                        <<"samples",
                          JList([k \in DOMAIN study.samples |-> SampleJson(study.samples[k])])>> >>)>>,
             <<"processSequence",
               JList([k \in DOMAIN study.procs |-> ProcessToJson(study.procs[k])])>>,
             <<"assays", JList([k \in DOMAIN study.assays |-> AssayToJson(study.assays[k])])>> >>)

ToJson(document) ==
    LET sources == Field(document, "ontologySourceReferences", <<>>)
    IN JDict(<< <<"ontologySourceReferences",
                  JList([k \in DOMAIN sources |-> OntologySourceJson(sources[k])])>>,
                <<"publicReleaseDate", JStr(Field(document, "publicReleaseDate", ""))>>,
                <<"submissionDate", JStr(Field(document, "submissionDate", ""))>>,
                <<"publications", PublicationsJson(document)>>,
                <<"studies",
                  JList([k \in DOMAIN document.studies |-> StudyToJson(document.studies[k])])>> >>)

-----------------------------------------------------------------------------
(* validate_isajson: the walker that collects declarations *)

\* the items a for loop of a walker has still to visit
ForLoop(items) == [t |-> "for", items |-> items]

\* for i in isa_json.keys(): ... isa_json[i]
ValuesOf_keys(isa_json) == ForLoop([i \in DOMAIN isa_json.items |-> isa_json.items[i][2]])

\* lines 732-743 without the branch for lists: sequences are not traversed
RECURSIVE _collect_object_refs_no_lists(_, _)
_collect_object_refs_no_lists(isa_json, object_refs) ==
    CASE isa_json.t = "dict" ->
             LET id == IF "@id" \in keys(isa_json) THEN Get(isa_json, "@id").v ELSE NoKey
                 found == IF /\ "@id" \in keys(isa_json)
                             /\ Cardinality(keys(isa_json)) > 1
                             /\ id \notin Range(object_refs)
                          THEN Append(object_refs, id) ELSE object_refs
             IN _collect_object_refs_no_lists(ValuesOf_keys(isa_json), found)
      [] isa_json.t = "for" ->
             IF isa_json.items = <<>> THEN object_refs
             ELSE LET visited == _collect_object_refs_no_lists(Head(isa_json.items), object_refs)
                  IN IF Len(visited) >= Len(object_refs)
                     THEN _collect_object_refs_no_lists(ForLoop(Tail(isa_json.items)), visited)
                     ELSE visited
      [] OTHER -> object_refs

\* lines 745-756
RECURSIVE _collect_id_refs(_, _)
_collect_id_refs(isa_json, id_refs) ==
    CASE isa_json.t = "dict" ->
             LET id == IF "@id" \in keys(isa_json) THEN Get(isa_json, "@id").v ELSE NoKey
                 found == IF /\ "@id" \in keys(isa_json)
                             /\ Cardinality(keys(isa_json)) = 1
                             /\ id \notin Range(id_refs)
                          THEN Append(id_refs, id) ELSE id_refs
             IN _collect_id_refs(ValuesOf_keys(isa_json), found)
      [] isa_json.t = "list" -> _collect_id_refs(ForLoop(isa_json.items), id_refs)
      [] isa_json.t = "for" ->
             IF isa_json.items = <<>> THEN id_refs
             ELSE LET visited == _collect_id_refs(Head(isa_json.items), id_refs)
                  IN IF Len(visited) >= Len(id_refs)
                     THEN _collect_id_refs(ForLoop(Tail(isa_json.items)), visited)
                     ELSE visited
      [] OTHER -> id_refs

\* lines 732-743; each visit of a for loop is finished, its list of
\* identifiers complete, before the next one begins
RECURSIVE _collect_object_refs(_, _)
_collect_object_refs(isa_json, object_refs) ==
    CASE isa_json.t = "dict" ->
             LET id == IF "@id" \in keys(isa_json) THEN Get(isa_json, "@id").v ELSE NoKey
                 found == IF /\ "@id" \in keys(isa_json)
                             /\ Cardinality(keys(isa_json)) > 1
                             /\ id \notin Range(object_refs)
                          THEN Append(object_refs, id) ELSE object_refs
             IN _collect_object_refs(ValuesOf_keys(isa_json), found)
      [] isa_json.t = "list" -> _collect_object_refs(ForLoop(isa_json.items), object_refs)
      [] isa_json.t = "for" ->
             IF isa_json.items = <<>> THEN object_refs
             ELSE LET visited == _collect_object_refs(Head(isa_json.items), object_refs)
                  IN IF Len(visited) >= Len(object_refs)
                     THEN _collect_object_refs(ForLoop(Tail(isa_json.items)), visited)
                     ELSE visited
      [] OTHER -> object_refs

Collected == Range(_collect_object_refs(ToJson(doc), <<>>))

RegisteredIds == {r[2] : r \in registered}

AnnotationIds ==
    {v.aid : v \in AllCharacteristics \cup AllFactorValues \cup AllParameterValues} \ {NoKey}

\* C10 (as stated): for a document that loads, the identifiers the walker
\* collects are exactly the identifiers load has registered in its
\* registries over the whole load.
C10_Original == LoadReturned => Collected = RegisteredIds

\* C10 (amended): for a document that loads, every identifier load has
\* registered is collected by the walker; the walker collects besides them
\* the @id of every other object that has a second key, which load registers
\* nowhere: here the @id of an annotation given as a value.
C10_RegisteredAreCollected ==
    LoadReturned =>
        /\ RegisteredIds \subseteq Collected
        /\ Collected \ RegisteredIds = AnnotationIds \ RegisteredIds

\* C10 witness: load has returned a document whose registries hold
\* identifiers of all ten kinds, all of them collected, and the walker has
\* collected the @id of an annotation value that no registry holds.
C10_Witness ==
    /\ LoadReturned
    /\ {r[1] : r \in registered} =
           Registries \cup {"data_dict", "other_materials_dict"}
    /\ RegisteredIds \subseteq Collected
    /\ "an1" \in Collected \ RegisteredIds

-----------------------------------------------------------------------------
(* validate_isajson: the nested checks.  A check is an operator from the    *)
(* JSON tree to the diagnostics it appends to the report, in order; a check *)
(* that can raise yields a record with the exception as well.               *)

Items(node) == node.items

Str(node) == node.v

\* one call of report.warn / report.error / report.fatal, or one print of validate2
Diagnostic(level, check, kind, id) == [level |-> level, check |-> check, kind |-> kind, id |-> id]

\* x is '' : CPython keeps one empty str object, so the identity test is the equality test
IsEmptyStr(node) == node.t = "str" /\ node.v = ""

StudiesOf(isa_json) == Items(Get(isa_json, "studies"))

AssaysOf(study) == Items(Get(study, "assays"))

\* lines 647-653
_check_filenames(isa_json) ==
    Concat([i \in DOMAIN StudiesOf(isa_json) |->
        LET study == StudiesOf(isa_json)[i]
        IN (IF IsEmptyStr(Get(study, "filename"))
            THEN <<Diagnostic("warn", "_check_filenames", "study filename missing", "")>>
            ELSE <<>>)
           \o Concat([j \in DOMAIN AssaysOf(study) |->
                  IF IsEmptyStr(Get(AssaysOf(study)[j], "filename"))
                  THEN <<Diagnostic("warn", "_check_filenames", "assay filename missing", "")>>
                  ELSE <<>>])])

OntologySourceNames(isa_json) ==
    LET sources == Items(Get(isa_json, "ontologySourceReferences"))
    IN [k \in DOMAIN sources |-> Str(Get(sources[k], "name"))]

NotEmpty(str) == str # ""

\* lines 655-662: the list returned, which starts with the empty string
_check_ontology_sources(isa_json) == <<"">> \o SelectSeq(OntologySourceNames(isa_json), NotEmpty)

\* lines 657-659: the warnings of _check_ontology_sources
OntologySourceWarnings(isa_json) ==
    LET names == OntologySourceNames(isa_json)
    IN Concat([k \in DOMAIN names |->
           IF names[k] = ""
           THEN <<Diagnostic("warn", "_check_ontology_sources", "term source name missing", "")>>
           ELSE <<>>])

\* iso8601.parse_date accepts the string
IsIso8601(date_str) == date_str \in {"2016-01-01", "2016-01-01T10:00:00"}

\* lines 1144-1149 (validate_isajson imports its own from isatools.validate.utils)
check_iso8601_date(date_str, level, check) ==
    IF date_str # "" /\ ~IsIso8601(date_str)
    THEN <<Diagnostic(level, check, "date not ISO8601", date_str)>>
    ELSE <<>>

\* the processes of a sequence before the first one without "date", and
\* whether there is one without
DatedPrefix(processes) ==
    LET undated == {k \in DOMAIN processes : "date" \notin keys(processes[k])}
    IN IF undated = {} THEN [upto |-> Len(processes), raises |-> FALSE]
       ELSE [upto |-> Min(undated) - 1, raises |-> TRUE]

\* the dates of the processes of one sequence, checked in order; process['date']
\* raises KeyError at the first process that has no such key
ProcessDates(processes, level, check) ==
    LET prefix == DatedPrefix(processes)
    IN [report |-> Concat([k \in 1..prefix.upto |->
                       check_iso8601_date(Str(Get(processes[k], "date")), level, check)]),
        err |-> IF prefix.raises
                THEN Exception("KeyError", check, "date", NoItem)
                ELSE NoError]

RECURSIVE StudyDatesFrom(_, _, _, _)
StudyDatesFrom(studies, i, level, check) ==
    IF i > Len(studies) THEN [report |-> <<>>, err |-> NoError]
    ELSE LET study == studies[i]
             own == check_iso8601_date(Str(Get(study, "publicReleaseDate")), level, check)
                    \o check_iso8601_date(Str(Get(study, "submissionDate")), level, check)
             procs == ProcessDates(Items(Get(study, "processSequence")), level, check)
             rest == StudyDatesFrom(studies, i + 1, level, check)
         IN IF procs.err # NoError
            THEN [report |-> own \o procs.report, err |-> procs.err]
            ELSE [report |-> own \o procs.report \o rest.report, err |-> rest.err]

\* lines 664-671 (and 1142-1157, which print)
DateFormats(isa_json, level, check) ==
    LET top == check_iso8601_date(Str(Get(isa_json, "publicReleaseDate")), level, check)
               \o check_iso8601_date(Str(Get(isa_json, "submissionDate")), level, check)
        rest == StudyDatesFrom(StudiesOf(isa_json), 1, level, check)
    IN [report |-> top \o rest.report, err |-> rest.err]

_check_date_formats(isa_json) == DateFormats(isa_json, "warn", "_check_date_formats")

AnnotationKeys == {"annotationValue", "termAccession", "termSource"}

\* lines 675-676 and 1249-1250: the key sets of an ontology annotation
IsAnnotation(node) == keys(node) = AnnotationKeys \/ keys(node) = AnnotationKeys \cup {"@id"}

\* lines 673-685
RECURSIVE _check_term_source_refs(_, _, _)
_check_term_source_refs(isa_json, ontology_source_refs, warnings) ==
    CASE isa_json.t = "dict" ->
             LET found == IF /\ IsAnnotation(isa_json)
                             /\ Str(Get(isa_json, "termSource")) \notin Range(ontology_source_refs)
                          THEN Append(warnings,
                                      Diagnostic("warn", "_check_term_source_refs",
                                                 "term source not declared",
                                                 Str(Get(isa_json, "termSource"))))
                          ELSE warnings
             IN _check_term_source_refs(ValuesOf_keys(isa_json), ontology_source_refs, found)
      [] isa_json.t = "list" ->
             _check_term_source_refs(ForLoop(isa_json.items), ontology_source_refs, warnings)
      [] isa_json.t = "for" ->
             IF isa_json.items = <<>> THEN warnings
             ELSE LET visited == _check_term_source_refs(Head(isa_json.items),
                                                         ontology_source_refs, warnings)
                  IN IF Len(visited) >= Len(warnings)
                     THEN _check_term_source_refs(ForLoop(Tail(isa_json.items)),
                                                  ontology_source_refs, visited)
                     ELSE visited
      [] OTHER -> warnings

\* the publications of the investigation, then those of every study
AllPublications(isa_json) ==
    Items(Get(isa_json, "publications"))
    \o Concat([i \in DOMAIN StudiesOf(isa_json) |-> Items(Get(StudiesOf(isa_json)[i], "publications"))])

DigitChars == {"0", "1", "2", "3", "4", "5", "6", "7", "8", "9"}

\* [0-9]{8} matches the eight characters of the string that start at position from
EightDigitsAt(str, from) ==
    /\ Len(str) >= from + 7
    /\ \A i \in from..(from + 7) : SubSeq(str, i, i) \in DigitChars

\* line 1189: re.compile('[0-9]{8}').match, which matches at the start of
\* the string and does not look at what follows
pmid_regex(str) == EightDigitsAt(str, 1)

\* line 1190: re.compile('PMC[0-9]{8}').match
pmcid_regex(str) == Len(str) >= 3 /\ SubSeq(str, 1, 3) = "PMC" /\ EightDigitsAt(str, 4)

\* line 1191: one of the two patterns matches
MatchesPubMed(pubmed_id_str) == pmid_regex(pubmed_id_str) \/ pmcid_regex(pubmed_id_str)

\* lines 1187-1192 (validate_isajson imports its own from isatools.validate.utils)
check_pubmed_id(pubmed_id_str, level, check) ==
    IF pubmed_id_str # "" /\ ~MatchesPubMed(pubmed_id_str)
    THEN <<Diagnostic(level, check, "PubMed ID not valid", pubmed_id_str)>>
    ELSE <<>>

\* lines 687-692 (and 1185-1198, which print)
PubmedIds(isa_json, level, check) ==
    LET pubs == AllPublications(isa_json)
    IN Concat([k \in DOMAIN pubs |-> check_pubmed_id(Str(Get(pubs[k], "pubMedID")), level, check)])

_check_pubmed_ids(isa_json) == PubmedIds(isa_json, "warn", "_check_pubmed_ids")

\* regexDOI.match accepts the string
MatchesDoi(doi_str) == doi_str \in {"10.1234/abc"}

\* lines 1162-1166 (validate_isajson imports its own from isatools.validate.utils)
check_doi(doi_str, level, check) ==
    IF doi_str # "" /\ ~MatchesDoi(doi_str)
    THEN <<Diagnostic(level, check, "DOI not valid", doi_str)>>
    ELSE <<>>

\* lines 694-699 (and 1160-1172, which print)
Dois(isa_json, level, check) ==
    LET pubs == AllPublications(isa_json)
    IN Concat([k \in DOMAIN pubs |-> check_doi(Str(Get(pubs[k], "doi")), level, check)])

_check_dois(isa_json) == Dois(isa_json, "warn", "_check_dois")

\* all the items of one list of every study, e.g. every protocol
InStudies(isa_json, key) ==
    Concat([i \in DOMAIN StudiesOf(isa_json) |-> Items(Get(StudiesOf(isa_json)[i], key))])

\* lines 701-709 (and 1201-1206, which print); the list built is not used
ProtocolNames(isa_json, level, check) ==
    LET protocols == InStudies(isa_json, "protocols")
    IN Concat([k \in DOMAIN protocols |->
           IF IsEmptyStr(Get(protocols[k], "name"))
           THEN <<Diagnostic(level, check, "protocol name missing", Str(Get(protocols[k], "@id")))>>
           ELSE <<>>])

_check_protocol_names(isa_json) == ProtocolNames(isa_json, "warn", "_check_protocol_names")

\* lines 711-720 (and 1209-1215, which print): parameterName is compared with ''
ProtocolParameterNames(isa_json, level, check) ==
    LET protocols == InStudies(isa_json, "protocols")
        parameters == Concat([k \in DOMAIN protocols |-> Items(Get(protocols[k], "parameters"))])
    IN Concat([k \in DOMAIN parameters |->
           IF IsEmptyStr(Get(parameters[k], "parameterName"))
           THEN <<Diagnostic(level, check, "parameter name missing", Str(Get(parameters[k], "@id")))>>
           ELSE <<>>])

_check_protocol_parameter_names(isa_json) ==
    ProtocolParameterNames(isa_json, "warn", "_check_protocol_parameter_names")

\* lines 722-730 (and 1218-1223, which print)
StudyFactorNames(isa_json, level, check) ==
    LET factors == InStudies(isa_json, "factors")
    IN Concat([k \in DOMAIN factors |->
           IF IsEmptyStr(Get(factors[k], "factorName"))
           THEN <<Diagnostic(level, check, "factor name missing", Str(Get(factors[k], "@id")))>>
           ELSE <<>>])

_check_study_factor_names(isa_json) == StudyFactorNames(isa_json, "warn", "_check_study_factor_names")

\* lines 771-782 reporting every undeclared identifier once, however often it is referenced
RECURSIVE _check_object_refs_once(_, _, _)
_check_object_refs_once(isa_json, object_refs, errors) ==
    CASE isa_json.t = "dict" ->
             LET id == IF "@id" \in keys(isa_json) THEN Str(Get(isa_json, "@id")) ELSE NoKey
                 found == IF /\ "@id" \in keys(isa_json)
                             /\ Cardinality(keys(isa_json)) = 1
                             /\ id \notin Range(object_refs) /\ id # ArrayDesignRef
                             /\ \A k \in DOMAIN errors : errors[k].id # id
                          THEN Append(errors, Diagnostic("error", "_check_object_refs",
                                                         "not declared anywhere", id))
                          ELSE errors
             IN _check_object_refs_once(ValuesOf_keys(isa_json), object_refs, found)
      [] isa_json.t = "list" ->
             _check_object_refs_once(ForLoop(isa_json.items), object_refs, errors)
      [] isa_json.t = "for" ->
             IF isa_json.items = <<>> THEN errors
             ELSE LET visited == _check_object_refs_once(Head(isa_json.items), object_refs, errors)
                  IN IF Len(visited) >= Len(errors)
                     THEN _check_object_refs_once(ForLoop(Tail(isa_json.items)), object_refs, visited)
                     ELSE visited
      [] OTHER -> errors

\* lines 771-782; errors are the calls of report.error so far
RECURSIVE _check_object_refs(_, _, _)
_check_object_refs(isa_json, object_refs, errors) ==
    CASE isa_json.t = "dict" ->
             LET id == IF "@id" \in keys(isa_json) THEN Str(Get(isa_json, "@id")) ELSE NoKey
                 found == IF /\ "@id" \in keys(isa_json)
                             /\ Cardinality(keys(isa_json)) = 1
                             /\ id \notin Range(object_refs) /\ id # ArrayDesignRef
                          THEN Append(errors, Diagnostic("error", "_check_object_refs",
                                                         "not declared anywhere", id))
                          ELSE errors
             IN _check_object_refs(ValuesOf_keys(isa_json), object_refs, found)
      [] isa_json.t = "list" -> _check_object_refs(ForLoop(isa_json.items), object_refs, errors)
      [] isa_json.t = "for" ->
             IF isa_json.items = <<>> THEN errors
             ELSE LET visited == _check_object_refs(Head(isa_json.items), object_refs, errors)
                  IN IF Len(visited) >= Len(errors)
                     THEN _check_object_refs(ForLoop(Tail(isa_json.items)), object_refs, visited)
                     ELSE visited
      [] OTHER -> errors

\* lines 758-769
RECURSIVE _collect_term_source_refs(_, _)
_collect_term_source_refs(isa_json, id_refs) ==
    CASE isa_json.t = "dict" ->
             LET found == IF /\ "termSource" \in keys(isa_json)
                             /\ Cardinality(keys(isa_json)) = 3
                             /\ Str(Get(isa_json, "termSource")) \notin Range(id_refs)
                          THEN Append(id_refs, Str(Get(isa_json, "termSource"))) ELSE id_refs
             IN _collect_term_source_refs(ValuesOf_keys(isa_json), found)
      [] isa_json.t = "list" -> _collect_term_source_refs(ForLoop(isa_json.items), id_refs)
      [] isa_json.t = "for" ->
             IF isa_json.items = <<>> THEN id_refs
             ELSE LET visited == _collect_term_source_refs(Head(isa_json.items), id_refs)
                  IN IF Len(visited) >= Len(id_refs)
                     THEN _collect_term_source_refs(ForLoop(Tail(isa_json.items)), visited)
                     ELSE visited
      [] OTHER -> id_refs

\* lines 784-787
_check_object_usage(section, objects_declared, id_refs) ==
    Concat([k \in DOMAIN objects_declared |->
        IF objects_declared[k] \notin Range(id_refs)
        THEN <<Diagnostic("warn", section, "not used anywhere", objects_declared[k])>>
        ELSE <<>>])

IdsOf(list) == [k \in DOMAIN list |-> Str(Get(list[k], "@id"))]

\* lines 803-811 (key "protocols") and 813-821 (key "factors"): the objects
\* every study declares under the key are looked up among the bare
\* references of the whole document
DeclaredAreUsed(isa_json, key, section) ==
    Concat([i \in DOMAIN StudiesOf(isa_json) |->
        _check_object_usage(section, IdsOf(Items(Get(StudiesOf(isa_json)[i], key))),
                            _collect_id_refs(isa_json, <<>>))])

\* lines 822-823
TermSourcesAreUsed(isa_json) ==
    _check_object_usage("term source check", OntologySourceNames(isa_json),
                        _collect_term_source_refs(isa_json, <<>>))

-----------------------------------------------------------------------------
(* validate_isajson: the body, lines 789-832 *)

NoRaise(diagnostics) == [report |-> diagnostics, err |-> NoError]

\* lines 639-645: Draft4Validator.validate raises ValidationError on a
\* document that does not conform
_check_isa_schemas(conforms) ==
    [report |-> <<>>,
     err |-> IF conforms THEN NoError
             ELSE Exception("ValidationError", "_check_isa_schemas", "", NoItem)]

\* a check that raises ends the function, whatever follows it
ProceedAnyway(err, next) == next

\* the statements of the try block run in order; an exception leaves the
\* function (ValidationError is raised again by lines 831-832, any other
\* exception is not caught)
Proceed(err, next) == IF err # NoError THEN "raised" ELSE next

\* lines 848-853: the except clauses of validate, which report the
\* exception as fatal and raise it again; every other exception passes
\* through them
except_clauses(function, err) ==
    IF function # "validate" THEN <<>>
    ELSE CASE err.type = "ValueError" ->
                  <<Diagnostic("fatal", "validate", "error parsing the JSON", "")>>
           [] err.type = "SystemError" ->
                  <<Diagnostic("fatal", "validate", "general system error", "")>>
           [] OTHER -> <<>>

\* one statement of a validation function: the check at position name runs,
\* what it reports is appended, and control moves on
Check(name, next, result) ==
    /\ vpc = name
    /\ ran' = Append(ran, name)
    /\ report' = report \o result.report \o except_clauses(entry, result.err)
    /\ error' = result.err
    /\ vpc' = Proceed(result.err, next)
    /\ doc' = Field(result, "doc", doc)
    /\ UNCHANGED <<heap, graph_vars, lpc, si, ai, pi, dicts, sequences, graphs, values,
                   registered, entry, fp, schema_ok>>

ValidateSchema ==
    Check("_check_isa_schemas", "_check_filenames", _check_isa_schemas(schema_ok))

ValidateFilenames ==
    Check("_check_filenames", "_check_ontology_sources", NoRaise(_check_filenames(ToJson(doc))))

ValidateOntologySources ==
    Check("_check_ontology_sources", "_check_date_formats",
          NoRaise(OntologySourceWarnings(ToJson(doc))))

ValidateDateFormats ==
    Check("_check_date_formats", "_check_term_source_refs", _check_date_formats(ToJson(doc)))

ValidateTermSourceRefs ==
    Check("_check_term_source_refs", "_check_pubmed_ids",
          NoRaise(_check_term_source_refs(ToJson(doc), _check_ontology_sources(ToJson(doc)), <<>>)))

ValidatePubmedIds ==
    Check("_check_pubmed_ids", "_check_dois", NoRaise(_check_pubmed_ids(ToJson(doc))))

ValidateDois ==
    Check("_check_dois", "_check_protocol_names", NoRaise(_check_dois(ToJson(doc))))

ValidateProtocolNames ==
    Check("_check_protocol_names", "_check_protocol_parameter_names",
          NoRaise(_check_protocol_names(ToJson(doc))))

ValidateProtocolParameterNames ==
    Check("_check_protocol_parameter_names", "_check_study_factor_names",
          NoRaise(_check_protocol_parameter_names(ToJson(doc))))

ValidateStudyFactorNames ==
    Check("_check_study_factor_names", "_check_object_refs",
          NoRaise(_check_study_factor_names(ToJson(doc))))

\* line 801
ValidateObjectRefs ==
    Check("_check_object_refs", "protocols declared are used",
          NoRaise(_check_object_refs(ToJson(doc), _collect_object_refs(ToJson(doc), <<>>), <<>>)))

\* lines 803-811
ValidateProtocolUsage ==
    Check("protocols declared are used", "study factors declared are used",
          NoRaise(DeclaredAreUsed(ToJson(doc), "protocols", "protocols declared are used")))

\* lines 813-821
ValidateFactorUsage ==
    Check("study factors declared are used", "term source check",
          NoRaise(DeclaredAreUsed(ToJson(doc), "factors", "study factors declared are used")))

\* lines 822-823
ValidateTermSourceUsage ==
    Check("term source check", "link checks", NoRaise(TermSourcesAreUsed(ToJson(doc))))

\* lines 825-830: check_data_files, isajson_load and isajson_link_objects of
\* isatools.validate.utils; the validation path returns its report
ValidateLinkChecks ==
    Check("link checks", "returned", NoRaise(<<>>))

NextValidateIsajson ==
    \/ ValidateSchema
    \/ ValidateFilenames
    \/ ValidateOntologySources
    \/ ValidateDateFormats
    \/ ValidateTermSourceRefs
    \/ ValidatePubmedIds
    \/ ValidateDois
    \/ ValidateProtocolNames
    \/ ValidateProtocolParameterNames
    \/ ValidateStudyFactorNames
    \/ ValidateObjectRefs
    \/ ValidateProtocolUsage
    \/ ValidateFactorUsage
    \/ ValidateTermSourceUsage
    \/ ValidateLinkChecks

-----------------------------------------------------------------------------------------------------------------------------------------------------
(* validate2 and its checks, lines 857-1322 *)

\* print(...): what the checks of validate2 write, with the ids the message formats
Printed(check, kind, ids) == [level |-> "print", check |-> check, kind |-> kind, ids |-> ids]

\* the same diagnostics, printed by the check of validate2 that has the same body
AsPrinted(diagnostics, check) ==
    [k \in DOMAIN diagnostics |-> [diagnostics[k] EXCEPT !.level = "print", !.check = check]]

MaterialsOf(json, key) == Items(Get(Get(json, "materials"), key))

ProcessSequence(json) == Items(Get(json, "processSequence"))

\* lines 857-859
get_source_ids(study_node) == IdsOf(MaterialsOf(study_node, "sources"))

\* lines 862-864
get_sample_ids(study_node) == IdsOf(MaterialsOf(study_node, "samples"))

\* lines 867-872
get_material_ids(study_node) ==
    Concat([a \in DOMAIN AssaysOf(study_node) |->
               IdsOf(MaterialsOf(AssaysOf(study_node)[a], "otherMaterials"))])

\* lines 875-880
get_data_file_ids(study_node) ==
    Concat([a \in DOMAIN AssaysOf(study_node) |->
               IdsOf(Items(Get(AssaysOf(study_node)[a], "dataFiles")))])

\* lines 885-887: all_process_sequences is the list object of the study, so
\* extend() appends the processes of every assay to the study's own
\* processSequence
ExtendProcessSequence(study) ==
    [study EXCEPT !.procs = @ \o Concat([a \in DOMAIN study.assays |-> study.assays[a].procs])]

RECURSIVE ExtendTimes(_, _)
ExtendTimes(study, n) == IF n = 0 THEN study ELSE ExtendTimes(ExtendProcessSequence(study), n - 1)

\* lines 888-889, on the processSequence already extended
get_io_ids_in_process_sequence(study_node) ==
    Concat([k \in DOMAIN ProcessSequence(study_node) |->
               IdsOf(Items(Get(ProcessSequence(study_node)[k], "inputs")))
               \o IdsOf(Items(Get(ProcessSequence(study_node)[k], "outputs")))])

\* lines 892-901, given the ids the collector function returned
check_material_ids_declared_used(node_ids, io_ids_in_process_sequence) ==
    IF Range(node_ids) \subseteq Range(io_ids_in_process_sequence) THEN <<>>
    ELSE <<Printed("check_material_ids_declared_used", "not all node ids used", Range(node_ids))>>

\* lines 904-911
check_material_ids_not_declared_used(study_node, io_ids_in_process_sequence) ==
    LET node_ids == get_source_ids(study_node) \o get_sample_ids(study_node)
                    \o get_material_ids(study_node) \o get_data_file_ids(study_node)
    IN IF Cardinality(Range(io_ids_in_process_sequence)) - Cardinality(Range(node_ids)) > 0
       THEN <<Printed("check_material_ids_not_declared_used", "used not declared",
                      Range(io_ids_in_process_sequence) \ Range(node_ids))>>
       ELSE <<>>

\* lines 914-929
check_process_sequence_links(process_sequence_json) ==
    LET process_ids == Range(IdsOf(process_sequence_json))
        Link(process, key) ==
            IF key \in keys(process) /\ "@id" \in keys(Get(process, key))
               /\ Str(Get(Get(process, key), "@id")) \notin process_ids
            THEN <<Printed("check_process_sequence_links", key,
                           <<Str(Get(Get(process, key), "@id")), Str(Get(process, "@id"))>>)>>
            ELSE <<>>
    IN Concat([k \in DOMAIN process_sequence_json |->
                  Link(process_sequence_json[k], "previousProcess")
                  \o Link(process_sequence_json[k], "nextProcess")])

\* the if / elif that ends every usage check (e.g. lines 954-961)
UsageCheck(check, declared, used) ==
    IF Cardinality(used \ declared) > 0
    THEN <<Printed(check, "used not declared", used \ declared)>>
    ELSE IF Cardinality(declared \ used) > 0
         THEN <<Printed(check, "declared not used", declared \ used)>>
         ELSE <<>>

\* lines 932-934
get_study_protocol_ids(study_node) == IdsOf(Items(Get(study_node, "protocols")))

\* lines 941-953: the executesProtocol ids of a process sequence
ProtocolIdsUsed(sequence_json) ==
    Concat([k \in DOMAIN sequence_json |->
               IF "executesProtocol" \in keys(sequence_json[k])
                  /\ "@id" \in keys(Get(sequence_json[k], "executesProtocol"))
               THEN <<Str(Get(Get(sequence_json[k], "executesProtocol"), "@id"))>>
               ELSE <<>>])

\* lines 937-961
check_process_protocol_ids_usage(study_node) ==
    UsageCheck("check_process_protocol_ids_usage",
               Range(get_study_protocol_ids(study_node)),
               Range(ProtocolIdsUsed(ProcessSequence(study_node))
                     \o Concat([a \in DOMAIN AssaysOf(study_node) |->
                                   ProtocolIdsUsed(ProcessSequence(AssaysOf(study_node)[a]))])))

\* the category ids of a list of characteristics, factor values or parameter values
CategoryIds(values_json) ==
    [k \in DOMAIN values_json |-> Str(Get(Get(values_json[k], "category"), "@id"))]

\* lines 964-967
get_study_protocols_parameter_ids(study_node) ==
    LET protocols == Items(Get(study_node, "protocols"))
    IN Concat([k \in DOMAIN protocols |-> IdsOf(Items(Get(protocols[k], "parameters")))])

ParameterIdsUsed(sequence_json) ==
    Concat([k \in DOMAIN sequence_json |->
               CategoryIds(Items(Get(sequence_json[k], "parameterValues")))])

\* lines 970-981
get_parameter_value_parameter_ids(study_node) ==
    ParameterIdsUsed(ProcessSequence(study_node))
    \o Concat([a \in DOMAIN AssaysOf(study_node) |->
                  ParameterIdsUsed(ProcessSequence(AssaysOf(study_node)[a]))])

\* lines 984-994
check_protocol_parameter_ids_usage(study_node) ==
    UsageCheck("check_protocol_parameter_ids_usage",
               Range(get_study_protocols_parameter_ids(study_node)),
               Range(get_parameter_value_parameter_ids(study_node)))

\* lines 997-999
get_characteristic_category_ids(study_or_assay_node) ==
    IdsOf(Items(Get(study_or_assay_node, "characteristicCategories")))

\* lines 1002-1006
get_characteristic_category_ids_in_study_materials(study_node) ==
    LET materials == MaterialsOf(study_node, "sources") \o MaterialsOf(study_node, "samples")
    IN Concat([k \in DOMAIN materials |->
                  CategoryIds(Items(Get(materials[k], "characteristics")))])

\* lines 1009-1013
get_characteristic_category_ids_in_assay_materials(assay_node) ==
    LET materials == MaterialsOf(assay_node, "samples") \o MaterialsOf(assay_node, "otherMaterials")
    IN Concat([k \in DOMAIN materials |->
                  IF "characteristics" \in keys(materials[k])
                  THEN CategoryIds(Items(Get(materials[k], "characteristics")))
                  ELSE <<>>])

\* lines 1016-1040
check_characteristic_category_ids_usage(study_node) ==
    UsageCheck("check_characteristic_category_ids_usage",
               Range(get_characteristic_category_ids(study_node)),
               Range(get_characteristic_category_ids_in_study_materials(study_node)))
    \o Concat([a \in DOMAIN AssaysOf(study_node) |->
           UsageCheck("check_characteristic_category_ids_usage (assay)",
                      Range(get_characteristic_category_ids(AssaysOf(study_node)[a])),
                      Range(get_characteristic_category_ids_in_assay_materials(
                                AssaysOf(study_node)[a])))])

\* lines 1043-1045
get_study_factor_ids(study_node) == IdsOf(Items(Get(study_node, "factors")))

\* lines 1048-1051
get_study_factor_ids_in_sample_factor_values(study_node) ==
    LET samples == MaterialsOf(study_node, "samples")
    IN Concat([k \in DOMAIN samples |-> CategoryIds(Items(Get(samples[k], "factorValues")))])

\* lines 1054-1065
check_study_factor_usage(study_node) ==
    UsageCheck("check_study_factor_usage",
               Range(get_study_factor_ids(study_node)),
               Range(get_study_factor_ids_in_sample_factor_values(study_node)))

\* lines 1068-1070
get_unit_category_ids(study_or_assay_node) ==
    IdsOf(Items(Get(study_or_assay_node, "unitCategories")))

HasUnit(value_json) == "unit" \in keys(value_json)

\* value['unit']['@id'] if 'unit' in value.keys() else None, and the final
\* filter "if x is not None"
UnitIds(values_json) ==
    LET with_unit == SelectSeq(values_json, HasUnit)
    IN [k \in DOMAIN with_unit |-> Str(Get(Get(with_unit[k], "unit"), "@id"))]

UnitIdsIn(list, key) == Concat([k \in DOMAIN list |-> UnitIds(Items(Get(list[k], key)))])

\* lines 1073-1089
get_study_unit_category_ids_in_materials_and_processes(study_node) ==
    UnitIdsIn(MaterialsOf(study_node, "sources") \o MaterialsOf(study_node, "samples"),
              "characteristics")
    \o UnitIdsIn(MaterialsOf(study_node, "samples"), "factorValues")
    \o UnitIdsIn(ProcessSequence(study_node), "parameterValues")

\* lines 1094-1096: a material without 'characteristics' contributes None to
\* the list that the comprehension flattens, and iterating None is a TypeError
LacksCharacteristics(assay_node) ==
    \E k \in DOMAIN MaterialsOf(assay_node, "otherMaterials") :
        "characteristics" \notin keys(MaterialsOf(assay_node, "otherMaterials")[k])

\* lines 1092-1101, when no material lacks its characteristics
get_assay_unit_category_ids_in_materials_and_processes(assay_node) ==
    UnitIdsIn(SelectSeq(MaterialsOf(assay_node, "otherMaterials"),
                        LAMBDA m : "characteristics" \in keys(m)), "characteristics")
    \o UnitIdsIn(ProcessSequence(assay_node), "parameterValues")

\* lines 1104-1119
check_unit_category_ids_usage(study_node) ==
    LET assays == AssaysOf(study_node)
        units_declared ==
            get_unit_category_ids(study_node)
            \o Concat([a \in DOMAIN assays |-> get_unit_category_ids(assays[a])])
        units_used ==
            get_study_unit_category_ids_in_materials_and_processes(study_node)
            \o Concat([a \in DOMAIN assays |->
                          get_assay_unit_category_ids_in_materials_and_processes(assays[a])])
    IN IF \E a \in DOMAIN assays : LacksCharacteristics(assays[a])
       THEN [report |-> <<>>,
             err |-> Exception("TypeError", "check_unit_category_ids_usage", NoKey, NoItem)]
       ELSE NoRaise(UsageCheck("check_unit_category_ids_usage",
                               Range(units_declared), Range(units_used)))

\* lines 1233-1235
get_ontology_source_refs(isa_json) == OntologySourceNames(isa_json)

\* lines 1238-1255: the termSource and termAccession of every annotation, in the order of the walk
RECURSIVE walk_and_get_annotations(_, _)
walk_and_get_annotations(isa_json, collector) ==
    CASE isa_json.t = "dict" ->
             LET found == IF IsAnnotation(isa_json)
                          THEN Append(collector,
                                      [termSource |-> Str(Get(isa_json, "termSource")),
                                       termAccession |-> Str(Get(isa_json, "termAccession"))])
                          ELSE collector
             IN walk_and_get_annotations(ValuesOf_keys(isa_json), found)
      [] isa_json.t = "list" -> walk_and_get_annotations(ForLoop(isa_json.items), collector)
      [] isa_json.t = "for" ->
             IF isa_json.items = <<>> THEN collector
             ELSE LET visited == walk_and_get_annotations(Head(isa_json.items), collector)
                  IN IF Len(visited) >= Len(collector)
                     THEN walk_and_get_annotations(ForLoop(Tail(isa_json.items)), visited)
                     ELSE visited
      [] OTHER -> collector

\* lines 1258-1271
check_term_source_refs(isa_json) ==
    LET collector == walk_and_get_annotations(isa_json, <<>>)
        term_sources_used == {collector[k].termSource : k \in DOMAIN collector} \ {""}
    IN UsageCheck("check_term_source_refs",
                  Range(get_ontology_source_refs(isa_json)), term_sources_used)

\* lines 1274-1280
check_term_accession_used_no_source_ref(isa_json) ==
    LET collector == walk_and_get_annotations(isa_json, <<>>)
        terms == SelectSeq(collector, LAMBDA a : a.termAccession # "" /\ a.termSource = "")
    IN IF Len(terms) > 0
       THEN <<Printed("check_term_accession_used_no_source_ref", "no termSource", Len(terms))>>
       ELSE <<>>

EachStudy(isa_json) == StudiesOf(isa_json)

\* the charset that chardet detects in the file
Encodings == {"UTF-8", "ascii", "ISO-8859-1"}

\* lines 1285-1287 (check_utf8, lines 1122-1129; json.load): SystemError and
\* ValueError are caught by lines 1317-1322, reported by print and raised again
Validate2Open ==
    \E encoding \in Encodings, well_formed \in BOOLEAN :
        Check("check_utf8", "check_isa_schemas",
              IF encoding \notin {"UTF-8", "ascii"}
              THEN [report |-> <<Printed("check_utf8", "encoding", {encoding}),
                                 Printed("validate2", "general system error", {})>>,
                    err |-> Exception("SystemError", "check_utf8", NoKey, NoItem)]
              ELSE IF ~well_formed
                   THEN [report |-> <<Printed("validate2", "error parsing the JSON", {})>>,
                         err |-> Exception("ValueError", "json.load", NoKey, NoItem)]
                   ELSE NoRaise(<<>>))

\* line 1288 (check_isa_schemas, lines 1132-1139)
Validate2Schema ==
    Check("check_isa_schemas", "check_material_ids_not_declared_used",
          _check_isa_schemas(schema_ok))

\* lines 1289-1290: every call extends the study's processSequence
Validate2MaterialsNotDeclared ==
    LET studies == [s \in DOMAIN doc.studies |-> ExtendProcessSequence(doc.studies[s])]
    IN Check("check_material_ids_not_declared_used", "check_material_ids_declared_used",
             [report |-> Concat([s \in DOMAIN studies |->
                                    check_material_ids_not_declared_used(
                                        StudyToJson(studies[s]),
                                        get_io_ids_in_process_sequence(StudyToJson(studies[s])))]),
              err |-> NoError,
              doc |-> [doc EXCEPT !.studies = studies]])

\* lines 1291-1295: four calls per study, each of which extends the
\* processSequence once more
Validate2MaterialsDeclared ==
    LET Calls(study) ==
            LET io_ids(n) == get_io_ids_in_process_sequence(StudyToJson(ExtendTimes(study, n)))
                study_node == StudyToJson(study)
            IN check_material_ids_declared_used(get_source_ids(study_node), io_ids(1))
               \o check_material_ids_declared_used(get_sample_ids(study_node), io_ids(2))
               \o check_material_ids_declared_used(get_material_ids(study_node), io_ids(3))
               \o check_material_ids_declared_used(get_data_file_ids(study_node), io_ids(4))
    IN Check("check_material_ids_declared_used", "check_characteristic_category_ids_usage",
             [report |-> Concat([s \in DOMAIN doc.studies |-> Calls(doc.studies[s])]),
              err |-> NoError,
              doc |-> [doc EXCEPT !.studies = [s \in DOMAIN @ |-> ExtendTimes(@[s], 4)]]])

\* lines 1296-1297
Validate2CharacteristicCategories ==
    Check("check_characteristic_category_ids_usage", "check_unit_category_ids_usage",
          NoRaise(Concat([s \in DOMAIN EachStudy(ToJson(doc)) |->
                             check_characteristic_category_ids_usage(EachStudy(ToJson(doc))[s])])))

\* the results of a check called for every study, up to the first that raises
RECURSIVE ForStudies(_, _)
ForStudies(results, acc) ==
    IF results = <<>> \/ acc.err # NoError THEN acc
    ELSE ForStudies(Tail(results),
                    [report |-> acc.report \o Head(results).report, err |-> Head(results).err])

\* lines 1298-1299
Validate2UnitCategories ==
    Check("check_unit_category_ids_usage", "check_process_sequence_links",
          ForStudies([s \in DOMAIN EachStudy(ToJson(doc)) |->
                         check_unit_category_ids_usage(EachStudy(ToJson(doc))[s])],
                     NoRaise(<<>>)))

\* lines 1300-1303
Validate2ProcessSequenceLinks ==
    Check("check_process_sequence_links", "check_process_protocol_ids_usage",
          NoRaise(Concat([s \in DOMAIN EachStudy(ToJson(doc)) |->
              LET study_node == EachStudy(ToJson(doc))[s]
              IN check_process_sequence_links(ProcessSequence(study_node))
                 \o Concat([a \in DOMAIN AssaysOf(study_node) |->
                        check_process_sequence_links(
                            ProcessSequence(AssaysOf(study_node)[a]))])])))

\* lines 1304-1305
Validate2ProtocolUsage ==
    Check("check_process_protocol_ids_usage", "check_date_formats",
          NoRaise(Concat([s \in DOMAIN EachStudy(ToJson(doc)) |->
                             check_process_protocol_ids_usage(EachStudy(ToJson(doc))[s])])))

\* line 1306 (check_date_formats, lines 1142-1157)
Validate2DateFormats ==
    Check("check_date_formats", "check_dois",
          DateFormats(ToJson(doc), "print", "check_date_formats"))

\* line 1307 (check_dois, lines 1160-1172)
Validate2Dois ==
    Check("check_dois", "check_pubmed_ids_format",
          NoRaise(Dois(ToJson(doc), "print", "check_dois")))

\* line 1308 (check_pubmed_ids_format, lines 1185-1198)
Validate2PubmedIds ==
    Check("check_pubmed_ids_format", "check_filenames_present",
          NoRaise(PubmedIds(ToJson(doc), "print", "check_pubmed_ids_format")))

\* line 1309 (check_filenames_present, lines 1175-1182)
Validate2Filenames ==
    Check("check_filenames_present", "check_protocol_names",
          NoRaise(AsPrinted(_check_filenames(ToJson(doc)), "check_filenames_present")))

\* line 1310 (check_protocol_names, lines 1201-1206)
Validate2ProtocolNames ==
    Check("check_protocol_names", "check_protocol_parameter_names",
          NoRaise(ProtocolNames(ToJson(doc), "print", "check_protocol_names")))

\* line 1311 (check_protocol_parameter_names, lines 1209-1215)
Validate2ProtocolParameterNames ==
    Check("check_protocol_parameter_names", "check_study_factor_names",
          NoRaise(ProtocolParameterNames(ToJson(doc), "print", "check_protocol_parameter_names")))

\* line 1312 (check_study_factor_names, lines 1218-1223)
Validate2StudyFactorNames ==
    Check("check_study_factor_names", "check_ontology_sources",
          NoRaise(StudyFactorNames(ToJson(doc), "print", "check_study_factor_names")))

\* line 1313 (check_ontology_sources, lines 1226-1230)
Validate2OntologySources ==
    Check("check_ontology_sources", "check_term_source_refs",
          NoRaise(AsPrinted(OntologySourceWarnings(ToJson(doc)), "check_ontology_sources")))

\* line 1314
Validate2TermSourceRefs ==
    Check("check_term_source_refs", "check_term_accession_used_no_source_ref",
          NoRaise(check_term_source_refs(ToJson(doc))))

\* line 1315
Validate2TermAccession ==
    Check("check_term_accession_used_no_source_ref", "returned",
          NoRaise(check_term_accession_used_no_source_ref(ToJson(doc))))

\* check_protocol_parameter_ids_usage and check_study_factor_usage, which
\* validate2 does not call, called on the first study of the document
CallProtocolParameterIdsUsage ==
    Check("check_protocol_parameter_ids_usage", "returned",
          NoRaise(check_protocol_parameter_ids_usage(StudiesOf(ToJson(doc))[1])))

CallStudyFactorUsage ==
    Check("check_study_factor_usage", "returned",
          NoRaise(check_study_factor_usage(StudiesOf(ToJson(doc))[1])))

\* check_encoding and is_utf8 are imported from isatools.validate.utils
\* (line 7): the file is UTF-8 when its bytes decode as UTF-8, which ascii does
is_utf8(encoding) == encoding \in {"UTF-8", "ascii"}

check_encoding(encoding) ==
    IF is_utf8(encoding) THEN <<>>
    ELSE <<Diagnostic("warn", "check_encoding", "encoding", encoding)>>

\* lines 837-847: validate(fp) up to the call of validate_isajson, whose
\* statements follow; "returned" is line 854, return report
ValidateFile ==
    \E encoding \in Encodings, well_formed \in BOOLEAN :
        Check("check_encoding",
              IF is_utf8(encoding) THEN "_check_isa_schemas" ELSE "returned",
              IF ~is_utf8(encoding)
              THEN NoRaise(check_encoding(encoding)
                           \o <<Diagnostic("fatal", "validate", "not UTF-8 encoded", "")>>)
              ELSE IF ~well_formed
                   THEN [report |-> <<>>,
                         err |-> Exception("ValueError", "json.load", NoKey, NoItem)]
                   ELSE NoRaise(<<>>))

NextValidate2 ==
    \/ Validate2Open
    \/ Validate2Schema
    \/ Validate2MaterialsNotDeclared
    \/ Validate2MaterialsDeclared
    \/ Validate2CharacteristicCategories
    \/ Validate2UnitCategories
    \/ Validate2ProcessSequenceLinks
    \/ Validate2ProtocolUsage
    \/ Validate2DateFormats
    \/ Validate2Dois
    \/ Validate2PubmedIds
    \/ Validate2Filenames
    \/ Validate2ProtocolNames
    \/ Validate2ProtocolParameterNames
    \/ Validate2StudyFactorNames
    \/ Validate2OntologySources
    \/ Validate2TermSourceRefs
    \/ Validate2TermAccession
    \/ CallProtocolParameterIdsUsage
    \/ CallStudyFactorUsage

-----
(* The documents given to the validation functions *)

ValidDate == "2016-01-01"

\* the study with a date on every process of its process sequence and of
\* those of its assays
DatedProcesses(procs) == [k \in DOMAIN procs |-> procs[k] @@ [date |-> ValidDate]]

Dated(study) ==
    [study EXCEPT !.procs = DatedProcesses(@),
                  !.assays = [a \in DOMAIN @ |-> [@[a] EXCEPT !.procs = DatedProcesses(@)]]]

DatedStudy == Dated(BaseStudy)

PlainValue(category) == [category |-> category, kind |-> "string", aid |-> NoKey, unit |-> NoKey]

\* most bare references of one kind that a document varies
MaxRefs == 2

RefLists(ids) == UNION {[1..n -> ids] : n \in 1..MaxRefs}

\* documents that vary the protocols declared and the executesProtocol
\* references: to the declared protocol, to an undeclared one, to the @id of
\* a sample, to the empty string and to the reserved identifier
ProtocolRefDocs ==
    {OneStudy([DatedStudy EXCEPT
                  !.protocols = protocols,
                  !.procs = [k \in DOMAIN prots |->
                                ProcessJson(ProcessIds[k], <<>>, <<>>, NoKey, NoKey)
                                @@ [date |-> ValidDate]],
                  !.procs = [k \in DOMAIN @ |-> [@[k] EXCEPT !.prot = prots[k]]],
                  !.assays[1].procs = assay_procs]) :
        protocols \in {<<>>, DatedStudy.protocols,
                       DatedStudy.protocols \o <<[id |-> "pr3", params |-> <<>>]>>},
        prots \in RefLists({"pr1", "pr2", "sa1", "", ArrayDesignRef}),
        assay_procs \in {<<>>, BaseAssay.procs}}

\* documents that vary the parameters declared and the categories of the
\* parameter values of a study process and of an assay process
ParameterRefDocs ==
    {OneStudy([DatedStudy EXCEPT
                  !.protocols[1].params = params,
                  !.procs[1].pvs = [k \in DOMAIN used |-> PlainValue(used[k])],
                  !.assays[1].procs[1].pvs = [k \in DOMAIN assay_used |-> PlainValue(assay_used[k])]]) :
        params \in {<<>>, <<"pa1">>, <<"pa1", "pa2">>},
        used \in {<<>>} \cup RefLists({"pa1", Undeclared, ""}),
        assay_used \in {<<>>, <<"pa1">>, <<ArrayDesignRef>>}}

\* documents that vary the factors declared and the categories of the factor values
FactorRefDocs ==
    {OneStudy([DatedStudy EXCEPT
                  !.factors = factors,
                  !.samples[1].fvs = [k \in DOMAIN used |->
                                         [PlainValue(used[k]) EXCEPT !.unit = "u1"]]]) :
        factors \in {<<>>, <<"f1">>, <<"f1", "f2">>},
        used \in {<<>>} \cup RefLists({"f1", Undeclared, ""})}

\* documents that vary the units declared and used, with and without the
\* characteristics of the other material
UnitRefDocs ==
    {OneStudy([DatedStudy EXCEPT
                  !.units = units,
                  !.sources[1].chars = chars,
                  !.assays[1].units = assay_units,
                  !.assays[1].procs[1].pvs = pvs,
                  !.assays[1].others[1] = other]) :
        units \in {<<>>, <<"u1">>},
        assay_units \in {<<>>, <<"u2">>},
        chars \in {<<>>} \cup {<<v>> : v \in ValueItems({"c1"})},
        pvs \in {<<>>, <<[category |-> "pa1", kind |-> "number", aid |-> NoKey, unit |-> "u2"]>>},
        other \in {BaseAssay.others[1], BaseAssay.others[1] @@ [characteristics_absent |-> TRUE]}}

TermSources == {"", "OBI", "EFO"}

\* documents that vary the ontology sources declared and the termSource of
\* the annotations: of the unit categories (which carry @id), of the
\* characteristicType of the categories, and of a characteristic value with
\* or without @id
TermSourceDocs ==
    {[ontologySourceReferences |-> declared,
      studies |-> <<[DatedStudy EXCEPT
                        !.sources[1].chars =
                            <<[category |-> "c1", kind |-> "annotation", aid |-> aid,
                               unit |-> NoKey, ts |-> value_ts]>>]
                    @@ [unit_ts |-> unit_ts, type_ts |-> type_ts]>>] :
        declared \in {<<>>, <<"OBI">>, <<"OBI", "">>, <<"OBI", "EFO">>},
        unit_ts \in TermSources, type_ts \in TermSources, value_ts \in TermSources,
        aid \in {NoKey, "an1"}}

Dates == {NoKey, "", ValidDate, "yesterday"}

\* documents that vary the dates: of the investigation and of the study, and
\* of the processes, where the key may be absent
DateDocs ==
    {[publicReleaseDate |-> top, submissionDate |-> "",
      studies |-> <<[BaseStudy EXCEPT
                        !.procs = [k \in DOMAIN dates |->
                                      IF dates[k] = NoKey
                                      THEN ProcessJson(ProcessIds[k], <<>>, <<>>, NoKey, NoKey)
                                      ELSE ProcessJson(ProcessIds[k], <<>>, <<>>, NoKey, NoKey)
                                           @@ [date |-> dates[k]]],
                        !.assays[1].procs = <<>>]
                    @@ [publicReleaseDate |-> "", submissionDate |-> study_date]>>] :
        top \in Dates \ {NoKey}, study_date \in {"", "yesterday"}, dates \in RefLists(Dates)}

\* documents that vary the file names, the names of protocols and factors,
\* and the publications
NameDocs ==
    {[publications |-> pubs,
      studies |-> <<[DatedStudy EXCEPT !.protocols[1] = @ @@ [name |-> name]]
                    @@ [filename |-> filename, factorName |-> name, identifier |-> identifier,
                        publications |-> pubs]>>] :
        filename \in {"", "s.txt"}, name \in {"", "v"}, identifier \in {"", "s1"},
        pubs \in {<<>>, <<[pubMedID |-> "12345678", doi |-> "10.1234/abc"]>>,
                  <<[pubMedID |-> "1234", doi |-> "doi"]>>, <<[pubMedID |-> "", doi |-> ""]>>}}

\* documents that vary the sources declared and the inputs and outputs of
\* the study process and of the assay process, declared or not
MaterialDocs ==
    {OneStudy([DatedStudy EXCEPT
                  !.sources = [k \in DOMAIN sources |-> [id |-> sources[k], chars |-> <<>>]],
                  !.procs[1].inputs = inputs,
                  !.assays[1].procs[1].outputs = outputs]) :
        sources \in {<<>>, <<"so1">>, <<"so1", "so2">>},
        inputs \in {<<>>, <<"so1">>, <<Undeclared>>, <<"so1", Undeclared>>},
        outputs \in {<<"m1", "d1">>, <<"m1", "x">>, <<"m1", "d1", "x">>}}

\* documents that vary the previousProcess and nextProcess links of the
\* study process p1 and of the assay process p2
LinkRefDocs ==
    {OneStudy([DatedStudy EXCEPT
                  !.procs[1].prev = study_prev, !.procs[1].next = study_next,
                  !.assays[1].procs[1].prev = assay_prev,
                  !.assays[1].procs[1].next = assay_next]) :
        study_prev \in {NoKey, "p1", Undeclared}, study_next \in {NoKey, "p2"},
        assay_prev \in {NoKey, "p1", "p2"}, assay_next \in {NoKey, Undeclared}}

PubMedIds ==
    {"", "1234567", "12345678", "123456789", "1234567x", "PMC1234567", "PMC12345678",
     "PMC123456789", "PMC", "pmc12345678"}

\* documents that vary the pubMedID of a publication of the investigation
\* and of a publication of the study
PubMedDocs ==
    {[publications |-> <<[pubMedID |-> top, doi |-> ""]>>,
      studies |-> <<DatedStudy @@ [publications |-> <<[pubMedID |-> id, doi |-> ""]>>]>>] :
        top \in {"", "12345678", "1234"}, id \in PubMedIds}

\* documents that vary the date of the study process and of the assay process
AssayDateDocs ==
    {OneStudy([DatedStudy EXCEPT !.procs[1].date = study_date,
                                 !.assays[1].procs[1].date = assay_date]) :
        study_date \in {"", ValidDate, "yesterday"},
        assay_date \in {"", ValidDate, "yesterday", "last week"}}

ValidateDocuments ==
    ProtocolRefDocs \cup ParameterRefDocs \cup FactorRefDocs \cup UnitRefDocs
    \cup TermSourceDocs \cup DateDocs \cup NameDocs \cup MaterialDocs \cup LinkRefDocs
    \cup AssayDateDocs \cup PubMedDocs

Entries ==
    {"validate", "validate_isajson", "validate2", "check_protocol_parameter_ids_usage",
     "check_study_factor_usage"}

FirstStep(function) ==
    CASE function = "validate" -> "check_encoding"
      [] function = "validate_isajson" -> "_check_isa_schemas"
      [] function = "validate2" -> "check_utf8"
      [] OTHER -> function

InitValidate ==
    /\ doc \in ValidateDocuments
    /\ fp = doc
    /\ entry \in Entries
    /\ schema_ok \in BOOLEAN
    /\ vpc = FirstStep(entry)
    /\ report = <<>>
    /\ ran = <<>>
    /\ error = NoError
    /\ lpc = "idle"
    /\ si = 0 /\ ai = 0 /\ pi = 0
    /\ categories_dict = EmptyDict /\ units_dict = EmptyDict /\ protocols_dict = EmptyDict
    /\ parameters_dict = EmptyDict /\ factors_dict = EmptyDict /\ sources_dict = EmptyDict
    /\ samples_dict = EmptyDict /\ process_dict = EmptyDict /\ data_dict = EmptyDict
    /\ other_materials_dict = EmptyDict
    /\ heap = <<>> /\ sequences = <<>> /\ graphs = <<>> /\ values = {} /\ registered = {}
    /\ process_sequence = <<>> /\ gi = 0 /\ gpc = "idle" /\ G = DiGraph
    /\ contribOut = <<>> /\ contribIn = <<>>

NextValidate == ValidateFile \/ NextValidateIsajson \/ NextValidate2

SpecValidate == InitValidate /\ [][NextValidate]_vars

ValidateReturned == vpc = "returned"

ValidateRaised == vpc = "raised"


-----------------------------------------------------------------------------
(* The nodes of a JSON tree, by their paths *)

Child(node, i) == IF node.t = "dict" THEN node.items[i][2] ELSE node.items[i]

RECURSIVE Paths(_)
Paths(node) ==
    {<<>>} \cup
    (IF node.t \in {"dict", "list"}
     THEN UNION {{<<i>> \o path : path \in Paths(Child(node, i))} : i \in DOMAIN node.items}
     ELSE {})

RECURSIVE NodeAt(_, _)
NodeAt(node, path) == IF path = <<>> THEN node ELSE NodeAt(Child(node, Head(path)), Tail(path))

\* the mapping nodes that carry "@id"
IdentifiedMappings(tree) ==
    {path \in Paths(tree) : NodeAt(tree, path).t = "dict" /\ "@id" \in keys(NodeAt(tree, path))}

IdAt(tree, path) == Str(Get(NodeAt(tree, path), "@id"))

\* {"@id": ...} and nothing else
BareReferences(tree) == {path \in IdentifiedMappings(tree) : keys(NodeAt(tree, path)) = {"@id"}}

\* "@id" and at least one other key
Declarations_(tree) ==
    {path \in IdentifiedMappings(tree) : Cardinality(keys(NodeAt(tree, path))) > 1}

DeclaredAnywhere(tree) == {IdAt(tree, path) : path \in Declarations_(tree)}

ReportOf(check) == SelectSeq(report, LAMBDA d : d.check = check)

Naming(diagnostics, id) == {k \in DOMAIN diagnostics : diagnostics[k].id = id}

Done(check) == \E k \in DOMAIN ran : ran[k] = check

\* the check is the last that has run
JustRan(check) == ran # <<>> /\ ran[Len(ran)] = check /\ ~ValidateRaised

\* the executesProtocol references of the study and assay process sequences
ProtocolsExecuted(procs) == [k \in DOMAIN procs |-> procs[k].prot]

ExecutesProtocol ==
    Concat([s \in DOMAIN doc.studies |->
               ProtocolsExecuted(doc.studies[s].procs) \o
               Concat([a \in DOMAIN doc.studies[s].assays |->
                          ProtocolsExecuted(doc.studies[s].assays[a].procs)])])

\* the document has one study that declares one protocol, and one
\* executesProtocol reference
OneProtocolOneReference ==
    /\ Len(doc.studies) = 1
    /\ Len(doc.studies[1].protocols) = 1
    /\ Len(ExecutesProtocol) = 1

\* C11: in validate_isajson, with a study that declares protocol P1 and a
\* single executesProtocol reference: if the reference names P1, the object
\* reference check and the protocol usage check append no diagnostic about
\* P1; if it names an ordinary identifier P2 declared nowhere, the object
\* reference check appends exactly one 'not declared' error naming P2.
C11_OneErrorForUndeclaredProtocol ==
    (JustRan("protocols declared are used") /\ OneProtocolOneReference) =>
        LET P1 == doc.studies[1].protocols[1].id
            used == ExecutesProtocol[1]
            refs == ReportOf("_check_object_refs")
            usage == ReportOf("protocols declared are used")
        IN /\ used = P1 => (Naming(refs, P1) = {} /\ usage = <<>>)
           /\ (used \notin DeclaredAnywhere(ToJson(doc)) \cup {"", ArrayDesignRef}) =>
                  /\ Cardinality(Naming(refs, used)) = 1
                  /\ \A k \in Naming(refs, used) :
                         refs[k].level = "error" /\ refs[k].kind = "not declared anywhere"

\* C11 witness: the single executesProtocol reference names the undeclared
\* pr2 while the study declares pr1, and the object reference check has
\* appended its error naming pr2.
C11_Witness ==
    /\ JustRan("protocols declared are used") /\ OneProtocolOneReference
    /\ doc.studies[1].protocols[1].id = "pr1"
    /\ ExecutesProtocol = <<"pr2">>
    /\ Cardinality(Naming(ReportOf("_check_object_refs"), "pr2")) = 1

\* the identifiers that a bare reference names and no object declares
UsedNotDeclared(tree) ==
    {IdAt(tree, path) : path \in BareReferences(tree)} \ DeclaredAnywhere(tree)

ReferencesTo(tree, id) == {path \in BareReferences(tree) : IdAt(tree, path) = id}

\* C12 (as stated): the object reference check appends exactly one error
\* per identifier that is used and not declared, however many bare
\* references name it.
C12_Original ==
    JustRan("_check_object_refs") =>
        \A id \in UsedNotDeclared(ToJson(doc)) \ {ArrayDesignRef} :
            Cardinality(Naming(ReportOf("_check_object_refs"), id)) = 1

\* C12 (amended): the object reference check appends one error per bare
\* reference whose identifier no object of the document declares (the
\* reserved array design identifier aside): an undeclared identifier
\* referenced n times yields n errors naming it, and no other error is
\* appended.
C12_OneErrorPerReference ==
    JustRan("_check_object_refs") =>
        LET tree == ToJson(doc)
            refs == ReportOf("_check_object_refs")
        IN /\ \A id \in UsedNotDeclared(tree) \ {ArrayDesignRef} :
                  Cardinality(Naming(refs, id)) = Cardinality(ReferencesTo(tree, id))
           /\ \A k \in DOMAIN refs : refs[k].id \in UsedNotDeclared(tree) \ {ArrayDesignRef}

\* C12 witness: two bare references name the undeclared pr2 and the check
\* has appended two errors naming it.
C12_Witness ==
    /\ JustRan("_check_object_refs")
    /\ Cardinality(ReferencesTo(ToJson(doc), "pr2")) = 2
    /\ "pr2" \in UsedNotDeclared(ToJson(doc))
    /\ Cardinality(Naming(ReportOf("_check_object_refs"), "pr2")) = 2

\* the protocols the studies declare
ProtocolsDeclared ==
    UNION {{doc.studies[s].protocols[k].id : k \in DOMAIN doc.studies[s].protocols} :
           s \in DOMAIN doc.studies}

OrdinaryIds(ids) == ids \ {"", ArrayDesignRef}

\* C14 (as stated): an executesProtocol reference to an identifier that no
\* study declares as a protocol is reported as not declared, even when the
\* identifier is declared in another namespace.
C14_Original ==
    JustRan("_check_object_refs") =>
        \A id \in OrdinaryIds(Range(ExecutesProtocol)) \ ProtocolsDeclared :
            Naming(ReportOf("_check_object_refs"), id) # {}

\* C14 (amended): validate_isajson reconciles references against one
\* document-wide set of declarations: an executesProtocol reference is
\* reported as not declared exactly when no object of the document, of
\* whatever kind, declares its identifier.
C14_DeclaredAnywhereSuffices ==
    JustRan("_check_object_refs") =>
        \A id \in Range(ExecutesProtocol) \ {ArrayDesignRef} :
            Naming(ReportOf("_check_object_refs"), id) # {}
                <=> id \notin DeclaredAnywhere(ToJson(doc))

\* C14 witness: a process executes "sa1", which the study declares as a
\* sample and not as a protocol, and the check has reported nothing about it.
C14_Witness ==
    /\ JustRan("_check_object_refs")
    /\ "sa1" \in Range(ExecutesProtocol) \ ProtocolsDeclared
    /\ "sa1" \in DeclaredAnywhere(ToJson(doc))
    /\ Naming(ReportOf("_check_object_refs"), "sa1") = {}

NoDuplicates(list) == Cardinality(Range(list)) = Len(list)

\* the state in which the two collectors have just been applied
CollectorsApplied == vpc = "protocols declared are used"

\* C17: _collect_object_refs returns exactly the @id values of the mapping
\* nodes, at any depth, that carry @id and at least one other key;
\* _collect_id_refs returns exactly the @id values of the mapping nodes
\* whose key set is {@id}; no value occurs twice in a result; and every
\* mapping node that carries @id is of exactly one of the two shapes.
C17_CollectorsPartitionIdentified ==
    CollectorsApplied =>
        LET tree == ToJson(doc)
            object_refs == _collect_object_refs(tree, <<>>)
            id_refs == _collect_id_refs(tree, <<>>)
        IN /\ Range(object_refs) = {IdAt(tree, path) : path \in Declarations_(tree)}
           /\ Range(id_refs) = {IdAt(tree, path) : path \in BareReferences(tree)}
           /\ NoDuplicates(object_refs) /\ NoDuplicates(id_refs)
           /\ Declarations_(tree) \cup BareReferences(tree) = IdentifiedMappings(tree)
           /\ Declarations_(tree) \cap BareReferences(tree) = {}

\* C17 witness: the tree holds a declaration nested four levels deep, an
\* identifier named by two bare references, and an identifier that is both
\* declared and referenced.
C17_Witness ==
    /\ CollectorsApplied
    /\ \E path \in Declarations_(ToJson(doc)) : Len(path) >= 4
    /\ \E id \in Range(_collect_id_refs(ToJson(doc), <<>>)) :
           Cardinality(ReferencesTo(ToJson(doc), id)) >= 2
    /\ Range(_collect_id_refs(ToJson(doc), <<>>))
           \cap Range(_collect_object_refs(ToJson(doc), <<>>)) # {}

\* the ontology annotations of the tree: key set {annotationValue,
\* termAccession, termSource}, with or without @id
Annotations(tree) ==
    {path \in Paths(tree) : NodeAt(tree, path).t = "dict" /\ IsAnnotation(NodeAt(tree, path))}

TermSourcesUsed(tree) ==
    {Str(Get(NodeAt(tree, path), "termSource")) : path \in Annotations(tree)}

\* C18: in validate_isajson a declared ontology source is reported as not
\* used exactly when it is the termSource of no ontology annotation of the
\* document, where an annotation has the three annotation keys, with or
\* without @id.
C18_AnnotationsAreUsages ==
    JustRan("term source check") =>
        \A name \in Range(OntologySourceNames(ToJson(doc))) :
            Naming(ReportOf("term source check"), name) # {}
                <=> name \notin TermSourcesUsed(ToJson(doc))

\* C19: a document that passes the schema check is validated to the end:
\* validate_isajson raises nothing but the schema's ValidationError.
C19_OnlySchemaIsFatal ==
    (entry = "validate_isajson" /\ ValidateRaised) => error.type = "ValidationError"

\* C20: when the schema check of validate_isajson fails, no later check
\* runs and the report stays empty.
C20_SchemaFailureShortCircuits ==
    (entry = "validate_isajson" /\ ~schema_ok /\ ran # <<>>) =>
        /\ ran = <<"_check_isa_schemas">>
        /\ report = <<>>
        /\ ValidateRaised
        /\ error.type = "ValidationError"

\* C20 witness: the schema check has failed on a document in which the
\* object reference check would have appended an error about pr2.
C20_Witness ==
    /\ entry = "validate_isajson" /\ ~schema_ok /\ ValidateRaised
    /\ "pr2" \in UsedNotDeclared(ToJson(doc))
    /\ _check_object_refs(ToJson(doc), _collect_object_refs(ToJson(doc), <<>>), <<>>) # <<>>

\* C13: no cross-reference check reports the empty string or the reserved
\* '#parameter/Array_Design_REF' as used but not declared: neither
\* _check_object_refs of validate_isajson nor a usage check of validate2.
C13_ReservedNeverReported ==
    \A k \in DOMAIN report :
        /\ report[k].check = "_check_object_refs" => report[k].id \notin {"", ArrayDesignRef}
        /\ (report[k].level = "print" /\ report[k].kind = "used not declared") =>
               report[k].ids \cap {"", ArrayDesignRef} = {}

\* the study that the usage checks of validate2 are given
TheStudy == doc.studies[1]

ValuesOfAll(list, key) == UNION {Range(list[k][key]) : k \in DOMAIN list}

CategoriesOf(value_set) == {v.category : v \in value_set}

UnitsOf(value_set) == {v.unit : v \in value_set} \ {NoKey}

AssayProcesses == UNION {Range(TheStudy.assays[a].procs) : a \in DOMAIN TheStudy.assays}

StudyProcesses == Range(TheStudy.procs) \cup AssayProcesses

ParameterValuesOf(processes) == UNION {Range(p.pvs) : p \in processes}

CharacterizedMaterials(assay) ==
    {m \in Range(assay.others) : ~Field(m, "characteristics_absent", FALSE)}

\* the identifiers a category declares and the identifiers used in it, read
\* from the document
Usage(check) ==
    CASE check = "check_process_protocol_ids_usage" ->
             [declared |-> {p.id : p \in Range(TheStudy.protocols)},
              used |-> {p.prot : p \in StudyProcesses}]
      [] check = "check_protocol_parameter_ids_usage" ->
             [declared |-> UNION {Range(p.params) : p \in Range(TheStudy.protocols)},
              used |-> CategoriesOf(ParameterValuesOf(StudyProcesses))]
      [] check = "check_characteristic_category_ids_usage" ->
             [declared |-> Range(TheStudy.cats),
              used |-> CategoriesOf(ValuesOfAll(TheStudy.sources, "chars")
                                    \cup ValuesOfAll(TheStudy.samples, "chars"))]
      [] check = "check_study_factor_usage" ->
             [declared |-> Range(TheStudy.factors),
              used |-> CategoriesOf(ValuesOfAll(TheStudy.samples, "fvs"))]
      [] check = "check_unit_category_ids_usage" ->
             [declared |-> Range(TheStudy.units)
                           \cup UNION {Range(TheStudy.assays[a].units) :
                                       a \in DOMAIN TheStudy.assays},
              used |-> UnitsOf(ValuesOfAll(TheStudy.sources, "chars")
                               \cup ValuesOfAll(TheStudy.samples, "chars")
                               \cup ValuesOfAll(TheStudy.samples, "fvs")
                               \cup ParameterValuesOf(StudyProcesses)
                               \cup UNION {UNION {Range(m.chars) :
                                                  m \in CharacterizedMaterials(TheStudy.assays[a])} :
                                           a \in DOMAIN TheStudy.assays})]
      [] check = "check_term_source_refs" ->
             [declared |-> Range(Field(doc, "ontologySourceReferences", <<>>)),
              used |-> TermSourcesUsed(ToJson(doc)) \ {""}]

UsageChecks ==
    {"check_process_protocol_ids_usage", "check_protocol_parameter_ids_usage",
     "check_characteristic_category_ids_usage", "check_study_factor_usage",
     "check_unit_category_ids_usage", "check_term_source_refs"}

\* the check has run to its end
Completed(check) == Done(check) /\ ~(ValidateRaised /\ error.site = check)

\* C15: in every usage check of validate2 the two directions are reported
\* independently: when declared minus used is not empty the check prints
\* the declared-but-unused diagnostic, whatever used minus declared is.
C15_DirectionsIndependent ==
    \A check \in UsageChecks :
        (Len(doc.studies) = 1 /\ Completed(check)
         /\ Usage(check).declared \ Usage(check).used # {}) =>
            \E k \in DOMAIN ReportOf(check) : ReportOf(check)[k].kind = "declared not used"

SingleCategoryChecks == UsageChecks \ {"check_characteristic_category_ids_usage"}

\* C16: a usage check of validate2 over one category emits no diagnostic
\* if and only if the identifiers used are the identifiers declared.
C16_SilentIffConsistent ==
    \A check \in SingleCategoryChecks :
        (Len(doc.studies) = 1 /\ Done(check)) =>
            (ReportOf(check) = <<>> <=> Usage(check).used = Usage(check).declared)

-----------------------------------------------------------------------------
(* Further claims about _build_assay_graph *)

NodeClasses == {"Process", "Source", "Sample", "Material", "DataFile"}

\* a process that neither names a material nor a neighbour
Unlinked(fields) ==
    /\ fields.inputs = <<>> /\ fields.outputs = <<>>
    /\ fields.prev_process = NoneObj /\ fields.next_process = NoneObj

\* C29: None never becomes a node of the graph: at every step of
\* _build_assay_graph every node and every end of an edge is a process or
\* an input or output entity.
C29_NoneIsNeverANode ==
    /\ NoneObj \notin G.nodes
    /\ \A n \in G.nodes : n.cls \in NodeClasses
    /\ \A e \in G.edges : e[1] \in G.nodes /\ e[2] \in G.nodes

\* C29 witness: the graph is returned for a sequence that holds a process
\* with no inputs, no outputs and both links None next to a process whose
\* only link is its previous process.
C29_Witness ==
    /\ Returned
    /\ G.nodes # {}
    /\ \E i \in ProcIdx : Unlinked(heap[process_sequence[i]])
    /\ \E i \in ProcIdx :
           LET last == heap[process_sequence[i]]
           IN last.inputs = <<>> /\ last.outputs = <<>>
              /\ last.prev_process # NoneObj /\ last.next_process = NoneObj

\* the loop body adds an edge at the process
HasOwnEdge(fields) ==
    \/ Len(fields.inputs) > 0
    \/ fields.prev_process # NoneObj
    \/ \E j \in DOMAIN fields.outputs : fields.outputs[j].cls # "DataFile"
    \/ fields.outputs = <<>> /\ fields.next_process # NoneObj

\* another process of the sequence chains to the process
NamedByChain(process) ==
    \E i \in ProcIdx :
        LET other == heap[process_sequence[i]]
        IN \/ other.outputs = <<>> /\ other.next_process = process
           \/ other.inputs = <<>> /\ other.prev_process = process

\* C30 (as stated): every process of the sequence is a node of the
\* returned graph.
C30_Original ==
    Returned => \A i \in ProcIdx : process_sequence[i] \in G.nodes

\* C30 (amended): a process of the sequence is a node of the returned graph
\* exactly when an edge is added at it: it has an input, a previous
\* process, an output that is not a data file, or no outputs and a next
\* process, or another process of the sequence chains to it.
C30_NodeIffEdge ==
    Returned =>
        \A i \in ProcIdx :
            process_sequence[i] \in G.nodes
                <=> (HasOwnEdge(heap[process_sequence[i]]) \/ NamedByChain(process_sequence[i]))

\* C30 witness: the returned graph lacks a process whose only output is a
\* data file and holds another process of the same sequence.
C30_Witness ==
    /\ Returned
    /\ \E i \in ProcIdx :
           /\ heap[process_sequence[i]].outputs = <<Dat1>>
           /\ heap[process_sequence[i]].inputs = <<>>
           /\ process_sequence[i] \notin G.nodes
    /\ \E i \in ProcIdx : process_sequence[i] \in G.nodes

-----------------------------------------------------------------------------
(* Further claims about load *)

\* the Process objects built for the process sequence of a container
ProcessesOf(c) == {ProcessAt(c, k) : k \in DOMAIN ProcessesJson(c)}

\* C28: after load, prev_process and next_process of every process are
\* unset or a process of the same study-level or assay-level process
\* sequence, never a process of another sequence.
C28_LinksStayInOwningSequence ==
    LoadReturned =>
        \A c \in Containers : \A process \in ProcessesOf(c) \cap DOMAIN heap :
            /\ heap[process].prev_process \in {NoneObj} \cup ProcessesOf(c)
            /\ heap[process].next_process \in {NoneObj} \cup ProcessesOf(c)

\* the values load types while it builds the sources, samples and processes
\* of a study, before it reaches the study's assays
StudyLevelSites ==
    {"source.characteristics", "sample.characteristics", "sample.factorValues",
     "study.process.parameterValues"}

\* the characteristic categories and unit categories a study declares, those
\* of its assays included
CategoriesAndUnitsOf(s) ==
    Range(doc.studies[s].cats) \cup Range(doc.studies[s].units)
    \cup UNION {Range(doc.studies[s].assays[a].cats) \cup Range(doc.studies[s].assays[a].units) :
                   a \in Assays(s)}

\* C24: every characteristic category and unit category a study declares,
\* those declared inside its assays included, is registered before the
\* study's materials and processes are built: load never fails at a
\* study-level characteristic, factor value or parameter value on a category
\* or unit that the study or one of its assays declares.
C24_DeclaredBeforeUse ==
    (LoadRaised /\ error.site \in StudyLevelSites) =>
        error.id \notin CategoriesAndUnitsOf(si)

-----------------------------------------------------------------------------
(* Further claims about validate2 *)

\* the identifiers the sources, samples, other materials and data files of
\* the study and of its assays declare
NodesDeclared ==
    Range(Ids(TheStudy.sources)) \cup Range(Ids(TheStudy.samples))
    \cup UNION {Range(Ids(TheStudy.assays[a].others)) \cup Range(TheStudy.assays[a].data) :
                   a \in DOMAIN TheStudy.assays}

\* the identifiers the processes of the study and of its assays name as
\* input or output
IOUsed == UNION {Range(p.inputs) \cup Range(p.outputs) : p \in StudyProcesses}

\* C25: check_material_ids_not_declared_used emits its diagnostic for a
\* study if and only if some input or output of the process sequences of
\* the study or of its assays is declared by none of the study's sources,
\* samples, other materials and data files.
C25_ReportedIffUndeclaredUsed ==
    (entry = "validate2" /\ JustRan("check_material_ids_not_declared_used")) =>
        (ReportOf("check_material_ids_not_declared_used") # <<>>
            <=> IOUsed \ NodesDeclared # {})

\* the checks of validate2 that call get_io_ids_in_process_sequence
MaterialChecks == {"check_material_ids_not_declared_used", "check_material_ids_declared_used"}

\* C26: the material checks treat the document as read-only input: once
\* check_material_ids_not_declared_used or check_material_ids_declared_used
\* (each of which calls get_io_ids_in_process_sequence) has run, the
\* processSequence of every study is the one the file holds, and a second call
\* of get_io_ids_in_process_sequence on a study returns the list the first
\* returned.
C26_ProcessSequenceReadOnly ==
    (entry = "validate2" /\ \E check \in MaterialChecks : JustRan(check)) =>
        \A s \in DOMAIN fp.studies :
            /\ doc.studies[s].procs = fp.studies[s].procs
            /\ get_io_ids_in_process_sequence(StudyToJson(ExtendTimes(fp.studies[s], 2)))
                   = get_io_ids_in_process_sequence(StudyToJson(ExtendTimes(fp.studies[s], 1)))

\* the diagnostics of rule 1006 that name the link of the process
LinkReports(key, link, id) ==
    {k \in DOMAIN ReportOf("check_process_sequence_links") :
        /\ ReportOf("check_process_sequence_links")[k].kind = key
        /\ ReportOf("check_process_sequence_links")[k].ids = <<link, id>>}

\* each link of each process of the sequence is reported once when its target
\* is no process of the sequence, and not at all when it is
ReportedOnceIffOutside(sequence_json) ==
    \A k \in DOMAIN sequence_json :
        /\ sequence_json[k].prev # NoKey =>
               Cardinality(LinkReports("previousProcess", sequence_json[k].prev, sequence_json[k].id))
                   = IF sequence_json[k].prev \in Range(Ids(sequence_json)) THEN 0 ELSE 1
        /\ sequence_json[k].next # NoKey =>
               Cardinality(LinkReports("nextProcess", sequence_json[k].next, sequence_json[k].id))
                   = IF sequence_json[k].next \in Range(Ids(sequence_json)) THEN 0 ELSE 1

\* C27: in validate2 (rule 1006) a previousProcess or nextProcess link of a
\* study-level process is reported exactly once if and only if its target
\* is not the @id of a process of that study's own processSequence (a
\* target that is only an assay-level process is reported); likewise for
\* each assay-level process against its own assay's processSequence.
C27_LinksCheckedAgainstOwnSequence ==
    (entry = "validate2" /\ JustRan("check_process_sequence_links")) =>
        \A s \in DOMAIN fp.studies :
            /\ ReportedOnceIffOutside(fp.studies[s].procs)
            /\ \A a \in DOMAIN fp.studies[s].assays :
                   ReportedOnceIffOutside(fp.studies[s].assays[a].procs)

\* the date-bearing fields of the document the file holds: the two dates of
\* the investigation and of every study, and the date of every process of
\* every study-level and assay-level process sequence that has one
DateFields ==
    <<Field(fp, "publicReleaseDate", ""), Field(fp, "submissionDate", "")>>
    \o Concat([s \in DOMAIN fp.studies |->
                  <<Field(fp.studies[s], "publicReleaseDate", ""),
                    Field(fp.studies[s], "submissionDate", "")>>
                  \o [k \in DOMAIN fp.studies[s].procs |-> Field(fp.studies[s].procs[k], "date", "")]
                  \o Concat([a \in DOMAIN fp.studies[s].assays |->
                                [k \in DOMAIN fp.studies[s].assays[a].procs |->
                                    Field(fp.studies[s].assays[a].procs[k], "date", "")]])])

\* C22: in validate2 every date-bearing field (the investigation dates, the
\* study dates, the date of each process of a study-level or assay-level
\* process sequence) that holds a malformed date produces exactly one
\* date-format diagnostic naming that string, and a well-formed or empty
\* date produces none.
C22_OneDiagnosticPerMalformedDate ==
    (entry = "validate2" /\ JustRan("check_date_formats")) =>
        \A date_str \in Range(DateFields) \cup {d.id : d \in Range(ReportOf("check_date_formats"))} :
            Cardinality(Naming(ReportOf("check_date_formats"), date_str))
                = IF date_str = "" \/ IsIso8601(date_str) THEN 0
                  ELSE Cardinality({k \in DOMAIN DateFields : DateFields[k] = date_str})

\* the pubMedID of every publication of the investigation and of its studies
PubMedIdFields ==
    [k \in DOMAIN Field(fp, "publications", <<>>) |-> fp.publications[k].pubMedID]
    \o Concat([s \in DOMAIN fp.studies |->
                  [k \in DOMAIN Field(fp.studies[s], "publications", <<>>) |->
                      fp.studies[s].publications[k].pubMedID]])

AllDigits(str) == \A i \in 1..Len(str) : SubSeq(str, i, i) \in DigitChars

\* exactly 8 digits, or 'PMC' followed by exactly 8 digits
ExactPubMedFormat(str) ==
    \/ Len(str) = 8 /\ AllDigits(str)
    \/ Len(str) = 11 /\ SubSeq(str, 1, 3) = "PMC" /\ AllDigits(SubSeq(str, 4, 11))

\* C23: check_pubmed_ids_format emits no diagnostic for a non-empty ID if
\* and only if the ID is exactly 8 digits or 'PMC' followed by exactly 8
\* digits; any other non-empty ID ('PMC' with 7 digits, a longer or shorter
\* digit string) yields one diagnostic for each publication that holds it.
C23_ExactPubMedFormat ==
    (entry = "validate2" /\ JustRan("check_pubmed_ids_format")) =>
        \A pubmed_id_str \in Range(PubMedIdFields) \ {""} :
            Cardinality(Naming(ReportOf("check_pubmed_ids_format"), pubmed_id_str))
                = IF ExactPubMedFormat(pubmed_id_str) THEN 0
                  ELSE Cardinality({k \in DOMAIN PubMedIdFields :
                                       PubMedIdFields[k] = pubmed_id_str})

-----------------------------------------------------------------------------
(* Further claims about validate *)

FatalDiagnostics == {k \in DOMAIN report : report[k].level = "fatal"}

\* C21: when the document does not conform to the schema, validate
\* appends a diagnostic of severity fatal to the report and returns the
\* report to the caller.
C21_SchemaFailureIsFatalAndReturned ==
    (entry = "validate" /\ ~schema_ok /\ Done("_check_isa_schemas")) =>
        ValidateReturned /\ FatalDiagnostics # {}

====
